---- MODULE Spec2Model ----
(***************************************************************************)
(* The edge-centric reader of genome-graph-rs: a stream of bcalm2 unitig   *)
(* records (id, sequence, adjacency tokens) is turned into a bidirected    *)
(* graph whose edges are the unitigs.  node_map resolves the two virtual   *)
(* endpoints of every record (slot 2*id: incoming side, slot 2*id+1:       *)
(* outgoing side) to container nodes in one pass.                          *)
(***************************************************************************)
EXTENDS Integers, Sequences, FiniteSets, TLC

VARIABLES
    input,      \* the parsed records of the stream (all of them, or those read so far from fasta)
    idx,        \* position in the stream of the record being processed
    pc,         \* position inside the loop body of the reader
    node_map,   \* Vec<MappedNode>: slot i of the code is node_map[i + 1]
    node_count, \* graph: the nodes are 0 .. node_count - 1
    mirror_of,  \* graph: mirror_of[n + 1] is the registered mirror of node n
    graph_edges,\* graph: the edges in insertion order
    rewrites,   \* history: the writes of the propagation loops that met a mapped slot
    fasta,      \* the fasta records of the reader, as text (<<>>: the stream is given parsed)
    result,     \* what the reader has returned: "Pending", "Ok" or the name of an error
    target_sequence_store, \* the caller's sequence store: the sequences added, in order
    dot,        \* dot reader: the lines of the file not read yet
    line,       \* dot reader: what is left of the line being read
    state,      \* dot reader: State of the parser
    node_id_map \* dot reader: HashMap from node name to node id

(* the variables of the dot reader *)
dot_reader == <<dot, line, state, node_id_map>>

vars == <<input, idx, pc, node_map, node_count, mirror_of, graph_edges, rewrites, fasta, result,
         target_sequence_store, dot_reader>>

(* no dot file is being read *)
NoDot ==
    /\ dot = <<>>
    /\ line = <<>>
    /\ state = "KwDigraph"
    /\ node_id_map = <<>>

-----------------------------------------------------------------------------
(* Bounds of the model *)

(* Records of a stream whose adjacency is the overlaps of its sequences *)
NumRecords == 3

(* Records and adjacency links of a stream whose adjacency is only symmetric *)
FreeRecords == 2

MaxLinks == 2

(* kmer_size as the tests of the reader pass it *)
KmerSize == 3

Min(a, b) == IF a < b THEN a ELSE b

-----------------------------------------------------------------------------
(* Sequences and reverse complements *)

Complement(c) ==
    CASE c = "A" -> "T"
      [] c = "T" -> "A"
      [] c = "C" -> "G"
      [] c = "G" -> "C"

ReverseComplement(s) == [i \in 1..Len(s) |-> Complement(s[Len(s) + 1 - i])]

Prefix(s, n) == SubSeq(s, 1, Min(n, Len(s)))

Suffix(s, n) == SubSeq(s, Len(s) - Min(n, Len(s)) + 1, Len(s))

(* Variant that never raises the flag *)
edge_is_self_mirror_Never(seq) == FALSE

(* sequence.iter().zip(sequence.reverse_complement_iter()).take(k-1).all(==) *)
edge_is_self_mirror(seq) ==
    \A i \in 1..Min(Len(seq), KmerSize - 1) : seq[i] = ReverseComplement(seq)[i]

-----------------------------------------------------------------------------
(* MappedNode *)

Unmapped == [kind |-> "Unmapped", forward |-> -1, backward |-> -1]

Normal(f, b) == [kind |-> "Normal", forward |-> f, backward |-> b]

SelfMirror(n) == [kind |-> "SelfMirror", forward |-> n, backward |-> n]

MirrorMapped(v) ==
    CASE v.kind = "Unmapped" -> Unmapped
      [] v.kind = "Normal" -> Normal(v.backward, v.forward)
      [] v.kind = "SelfMirror" -> SelfMirror(v.forward)

-----------------------------------------------------------------------------
(* Adjacency tokens *)

Edge(fs, to, ts) == [from_side |-> fs, to_node |-> to, to_side |-> ts]

(* Location of the to_node of the edge in the node_map *)
ToSlot(e) == e.to_node * 2 + (IF e.to_side THEN 0 ELSE 1)

IncomingEdges(rec) == SelectSeq(rec.edges, LAMBDA e : ~e.from_side)

OutgoingEdges(rec) == SelectSeq(rec.edges, LAMBDA e : e.from_side)

SeqContains(s, x) == \E i \in 1..Len(s) : s[i] = x

n1_is_self_mirror(rec) == SeqContains(rec.edges, Edge(FALSE, rec.id, TRUE))

(* Variant that looks for the token of the head *)
n2_is_self_mirror_AsHead(rec) == SeqContains(rec.edges, Edge(FALSE, rec.id, TRUE))

n2_is_self_mirror(rec) == SeqContains(rec.edges, Edge(TRUE, rec.id, FALSE))

-----------------------------------------------------------------------------
(* node_map operations *)

(* if node_map.len() <= i { node_map.resize(i + 1, Unmapped) } *)
Resize(m, i) ==
    IF Len(m) <= i THEN m \o [j \in 1..(i + 1 - Len(m)) |-> Unmapped] ELSE m

(* Variant that forgets to mirror across an edge that changes sides *)
AcrossEdge_NeverMirrored(isHead, e, v) == v

(* Variant that mirrors across every edge, also one that stays on its face *)
AcrossEdge_AlwaysMirrored(isHead, e, v) == MirrorMapped(v)

(* Variant that mirrors exactly when the edge stays on the same face *)
AcrossEdge_MirroredOnSameFace(isHead, e, v) ==
    IF (isHead /\ ~e.to_side) \/ (~isHead /\ e.to_side) THEN MirrorMapped(v) ELSE v

(* The value an endpoint adopts from (or hands to) the slot an edge names:
   unchanged when the edge stays on the same face, mirrored otherwise *)
AcrossEdge(isHead, e, v) ==
    IF (isHead /\ ~e.to_side) \/ (~isHead /\ e.to_side) THEN v ELSE MirrorMapped(v)

(* Variant of the search loop that goes on to the last mapped neighbor slot *)
RECURSIVE SearchNeighbors_LastMatch(_, _, _, _)
SearchNeighbors_LastMatch(m, es, n, isHead) ==
    IF es = <<>> THEN m
    ELSE LET e == Head(es)
             m1 == Resize(m, ToSlot(e))
         IN IF m1[ToSlot(e) + 1] # Unmapped
            THEN SearchNeighbors_LastMatch(
                    [m1 EXCEPT ![n + 1] = AcrossEdge(isHead, e, m1[ToSlot(e) + 1])],
                    Tail(es), n, isHead)
            ELSE SearchNeighbors_LastMatch(m1, Tail(es), n, isHead)

(* Variant of the search loop that takes a slot past the end of the map for
   Unmapped and does not grow the map *)
RECURSIVE SearchNeighbors_WithoutResize(_, _, _, _)
SearchNeighbors_WithoutResize(m, es, n, isHead) ==
    IF es = <<>> THEN m
    ELSE LET e == Head(es)
         IN IF ToSlot(e) < Len(m) /\ m[ToSlot(e) + 1] # Unmapped
            THEN [m EXCEPT ![n + 1] = AcrossEdge(isHead, e, m[ToSlot(e) + 1])]
            ELSE SearchNeighbors_WithoutResize(m, Tail(es), n, isHead)

(* The search loop: grows the map as it goes and stops at the first mapped
   neighbor slot *)
RECURSIVE SearchNeighbors(_, _, _, _)
SearchNeighbors(m, es, n, isHead) ==
    IF es = <<>> THEN m
    ELSE LET e == Head(es)
             m1 == Resize(m, ToSlot(e))
         IN IF m1[ToSlot(e) + 1] # Unmapped
            THEN [m1 EXCEPT ![n + 1] = AcrossEdge(isHead, e, m1[ToSlot(e) + 1])]
            ELSE SearchNeighbors(m1, Tail(es), n, isHead)

(* Variant that skips a neighbor slot on the other side of the record *)
AssignToNeighbor_SameSideOnly(m, e, n, isHead) ==
    IF e.to_side = isHead THEN m
    ELSE [m EXCEPT ![ToSlot(e) + 1] = AcrossEdge(isHead, e, m[n + 1])]

(* Variant that hands the neighbor the mirrored value whatever the sides *)
AssignToNeighbor_AlwaysMirrored(m, e, n, isHead) ==
    [m EXCEPT ![ToSlot(e) + 1] = MirrorMapped(m[n + 1])]

(* Variant in which a write that meets the value it would write takes it back *)
AssignToNeighbor_Toggles(m, e, n, isHead) ==
    IF m[ToSlot(e) + 1] = AcrossEdge(isHead, e, m[n + 1]) /\ ToSlot(e) # n
    THEN [m EXCEPT ![ToSlot(e) + 1] = Unmapped]
    ELSE [m EXCEPT ![ToSlot(e) + 1] = AcrossEdge(isHead, e, m[n + 1])]

(* One write of the propagation loop *)
AssignToNeighbor(m, e, n, isHead) ==
    [m EXCEPT ![ToSlot(e) + 1] = AcrossEdge(isHead, e, m[n + 1])]

(* Variant of the propagation loop that stops after its first entry *)
AssignToNeighbors_FirstEntryOnly(m, es, n, isHead) ==
    IF es = <<>> THEN [map |-> m, ok |-> TRUE, rewrites |-> {}]
    ELSE IF ToSlot(Head(es)) >= Len(m) THEN [map |-> m, ok |-> FALSE, rewrites |-> {}]
    ELSE [map |-> AssignToNeighbor(m, Head(es), n, isHead), ok |-> TRUE, rewrites |-> {}]

(* Variant of the propagation loop that writes nothing *)
AssignToNeighbors_WritesNothing(m, es, n, isHead) == [map |-> m, ok |-> TRUE, rewrites |-> {}]

(* The propagation loop; it does not grow the map, an index past the end
   panics: ok = FALSE.  rewrites records, for the history variable, every
   write that met a slot already mapped: the slot, the value it held, the
   value written, and the endpoint slot n being propagated *)
RECURSIVE AssignToNeighbors(_, _, _, _)
AssignToNeighbors(m, es, n, isHead) ==
    IF es = <<>> THEN [map |-> m, ok |-> TRUE, rewrites |-> {}]
    ELSE IF ToSlot(Head(es)) >= Len(m) THEN [map |-> m, ok |-> FALSE, rewrites |-> {}]
    ELSE LET to == ToSlot(Head(es))
             m1 == AssignToNeighbor(m, Head(es), n, isHead)
             rest == AssignToNeighbors(m1, Tail(es), n, isHead)
         IN IF m[to + 1] = Unmapped THEN rest
            ELSE [rest EXCEPT !.rewrites =
                     @ \cup {[slot |-> to, old |-> m[to + 1], new |-> m1[to + 1], of |-> n]}]

-----------------------------------------------------------------------------
(* The sequence store of the caller *)

(* target_sequence_store.add_from_slice_u8(record.seq()) *)
add_from_slice_u8(store, seq) == Append(store, seq)

(* the store that a stream given parsed was read into *)
StoredSequences(stream) == [r \in 1..Len(stream) |-> stream[r].seq]

-----------------------------------------------------------------------------
(* The reader's loop body, for the record input[idx] *)

record == input[idx]

n1 == record.id * 2

n2 == record.id * 2 + 1

(* Variant that registers each node of a fresh pair as its own mirror *)
NewEndpoint_EachItsOwnMirror(count, selfMirror) ==
    IF selfMirror
    THEN [value |-> SelfMirror(count), mirrors |-> <<count>>]
    ELSE [value |-> Normal(count, count + 1), mirrors |-> <<count, count + 1>>]

(* Variant that adds two nodes also for a self-mirror endpoint, which uses
   the first *)
NewEndpoint_TwoNodesAlways(count, selfMirror) ==
    IF selfMirror
    THEN [value |-> SelfMirror(count), mirrors |-> <<count, count + 1>>]
    ELSE [value |-> Normal(count, count + 1), mirrors |-> <<count + 1, count>>]

(* Variant that allocates a single self-mirror node whatever the flag *)
NewEndpoint_AlwaysSelfMirror(count, selfMirror) ==
    [value |-> SelfMirror(count), mirrors |-> <<count>>]

(* add_node + set_mirror_nodes for a fresh endpoint, in a graph of `count`
   nodes: the identity, and the mirrors registered for the added nodes *)
NewEndpoint(count, selfMirror) ==
    IF selfMirror
    THEN [value |-> SelfMirror(count), mirrors |-> <<count>>]
    ELSE [value |-> Normal(count, count + 1), mirrors |-> <<count + 1, count>>]

(* Variant that adds the nodes but does not store the identity in the slot *)
AllocateEndpoint_LeavesSlot(m, n, selfMirror) ==
    LET new == NewEndpoint(node_count, selfMirror)
    IN /\ node_count' = node_count + Len(new.mirrors)
       /\ mirror_of' = mirror_of \o new.mirrors
       /\ node_map' = m

AllocateEndpoint(m, n, selfMirror) ==
    LET new == NewEndpoint(node_count, selfMirror)
    IN /\ node_count' = node_count + Len(new.mirrors)
       /\ mirror_of' = mirror_of \o new.mirrors
       /\ node_map' = [m EXCEPT ![n + 1] = new.value]

HeadResolve ==
    /\ pc = "head"
    /\ LET m0 == Resize(node_map, n2)
       IN IF m0[n1 + 1] # Unmapped
          THEN /\ node_map' = m0
               /\ pc' = "tail"
               /\ UNCHANGED <<node_count, mirror_of>>
          ELSE LET m1 == SearchNeighbors(m0, IncomingEdges(record), n1, TRUE)
               IN /\ pc' = "head_assign"
                  /\ IF m1[n1 + 1] # Unmapped
                     THEN /\ node_map' = m1
                          /\ UNCHANGED <<node_count, mirror_of>>
                     ELSE AllocateEndpoint(m1, n1, n1_is_self_mirror(record))
    /\ UNCHANGED <<input, idx, graph_edges, rewrites, fasta, result, target_sequence_store, dot_reader>>

HeadAssign ==
    /\ pc = "head_assign"
    /\ LET r == AssignToNeighbors(node_map, IncomingEdges(record), n1, TRUE)
       IN /\ node_map' = r.map
          /\ rewrites' = rewrites \cup r.rewrites
          /\ pc' = IF r.ok THEN "tail" ELSE "panicked"
    /\ UNCHANGED <<input, idx, node_count, mirror_of, graph_edges, fasta, result, target_sequence_store, dot_reader>>

TailResolve ==
    /\ pc = "tail"
    /\ IF node_map[n2 + 1] # Unmapped
       THEN /\ pc' = "add_edges"
            /\ UNCHANGED <<node_map, node_count, mirror_of>>
       ELSE /\ pc' = "tail_assign"
            /\ IF edge_is_self_mirror(record.seq)
               THEN /\ node_map' = [node_map EXCEPT ![n2 + 1] = MirrorMapped(node_map[n1 + 1])]
                    /\ UNCHANGED <<node_count, mirror_of>>
               ELSE LET m1 == SearchNeighbors(node_map, OutgoingEdges(record), n2, FALSE)
                    IN IF m1[n2 + 1] # Unmapped
                       THEN /\ node_map' = m1
                            /\ UNCHANGED <<node_count, mirror_of>>
                       ELSE AllocateEndpoint(m1, n2, n2_is_self_mirror(record))
    /\ UNCHANGED <<input, idx, graph_edges, rewrites, fasta, result, target_sequence_store, dot_reader>>

TailAssign ==
    /\ pc = "tail_assign"
    /\ LET r == AssignToNeighbors(node_map, OutgoingEdges(record), n2, FALSE)
       IN /\ node_map' = r.map
          /\ rewrites' = rewrites \cup r.rewrites
          /\ pc' = IF r.ok THEN "add_edges" ELSE "panicked"
    /\ UNCHANGED <<input, idx, node_count, mirror_of, graph_edges, fasta, result, target_sequence_store, dot_reader>>

GraphEdge(from, to, id, forwards) ==
    [from |-> from, to |-> to, data |-> [id |-> id, forwards |-> forwards]]

(* Variant whose second edge runs between the backward nodes without being
   reversed *)
RecordEdges_MirrorNotReversed(head, tail, id) ==
    << GraphEdge(head.forward, tail.forward, id, TRUE),
       GraphEdge(head.backward, tail.backward, id, FALSE) >>

(* Variant that adds the second edge with the payload of the first *)
RecordEdges_PayloadNotMirrored(head, tail, id) ==
    << GraphEdge(head.forward, tail.forward, id, TRUE),
       GraphEdge(tail.backward, head.backward, id, TRUE) >>

(* graph.add_edge(n1f, n2f, edge_data); graph.add_edge(n2r, n1r, edge_data.mirror()) *)
RecordEdges(head, tail, id) ==
    << GraphEdge(head.forward, tail.forward, id, TRUE),
       GraphEdge(tail.backward, head.backward, id, FALSE) >>

(* Variant of the container that keeps one edge per pair of endpoints *)
add_edge_UnlessPresent(edges, e) ==
    IF \E i \in 1..Len(edges) : edges[i].from = e.from /\ edges[i].to = e.to
    THEN edges
    ELSE Append(edges, e)

(* graph.add_edge: the container is a multigraph, the edge gets the next index *)
add_edge(edges, e) == Append(edges, e)

(* Variant that emits the edges and starts over with the same record *)
AddEdges_RepeatsRecord ==
    /\ pc = "add_edges"
    /\ node_map[n1 + 1] # Unmapped
    /\ node_map[n2 + 1] # Unmapped
    /\ Len(graph_edges) < 2 * Len(input) + 2
    /\ graph_edges' = graph_edges \o RecordEdges(node_map[n1 + 1], node_map[n2 + 1], record.id)
    /\ pc' = "head"
    /\ UNCHANGED <<input, idx, node_map, node_count, mirror_of, rewrites, fasta, result, target_sequence_store, dot_reader>>

AddEdges ==
    /\ pc = "add_edges"
    /\ IF node_map[n1 + 1] = Unmapped \/ node_map[n2 + 1] = Unmapped
       THEN /\ pc' = "panicked"
            /\ UNCHANGED <<idx, graph_edges, result>>
       ELSE /\ LET es == RecordEdges(node_map[n1 + 1], node_map[n2 + 1], record.id)
               IN graph_edges' = add_edge(add_edge(graph_edges, es[1]), es[2])
            /\ idx' = idx + 1
            /\ pc' = IF idx < Len(input) THEN "head"
                     ELSE IF idx < Len(fasta) THEN "parse" ELSE "done"
            /\ result' = IF idx < Len(input) \/ idx < Len(fasta) THEN result ELSE "Ok"
    /\ UNCHANGED <<input, node_map, node_count, mirror_of, rewrites, fasta, target_sequence_store, dot_reader>>

-----------------------------------------------------------------------------
(* Record streams *)

(* The reader looks at a sequence only through its first and its last k-1
   characters.  Boundaries: a (k-1)-mer and its reverse complement, a
   (k-1)-mer that is its own reverse complement, and one more whose reverse
   complement occurs only as a mirror *)
Boundaries == { <<"A", "A">>, <<"T", "T">>, <<"A", "T">>, <<"A", "C">> }

UnitigSequences == { p \o q : p \in Boundaries, q \in Boundaries }

(* The (k-1)-mer an oriented unitig ends with, and the one it starts with *)
OutLabel(seq, side) ==
    IF side THEN Suffix(seq, KmerSize - 1)
    ELSE ReverseComplement(Prefix(seq, KmerSize - 1))

InLabel(seq, side) ==
    IF side THEN Prefix(seq, KmerSize - 1)
    ELSE ReverseComplement(Suffix(seq, KmerSize - 1))

(* The adjacency tokens bcalm2 lists for unitig r: every (k-1)-overlap *)
OverlapTokens(seqs, r) ==
    { Edge(fs, j - 1, ts) : <<fs, j, ts>> \in
        { t \in BOOLEAN \X (1..Len(seqs)) \X BOOLEAN :
            OutLabel(seqs[r], t[1]) = InLabel(seqs[t[2]], t[3]) } }

(* Variant that puts the larger neighbor id first *)
TokenLess_ByDescendingId(a, b) ==
    \/ a.from_side /\ ~b.from_side
    \/ a.from_side = b.from_side /\ a.to_node > b.to_node
    \/ a.from_side = b.from_side /\ a.to_node = b.to_node /\ ~a.to_side /\ b.to_side

(* (bool, usize, bool) tuple order, forward side first *)
TokenLess(a, b) ==
    \/ a.from_side /\ ~b.from_side
    \/ a.from_side = b.from_side /\ a.to_node < b.to_node
    \/ a.from_side = b.from_side /\ a.to_node = b.to_node /\ ~a.to_side /\ b.to_side

RECURSIVE SortTokens(_)
SortTokens(S) ==
    IF S = {} THEN <<>>
    ELSE LET least == CHOOSE x \in S : \A y \in S \ {x} : TokenLess(x, y)
         IN <<least>> \o SortTokens(S \ {least})

WellFormedStream(seqs) ==
    [r \in 1..Len(seqs) |->
        [id |-> r - 1, seq |-> seqs[r], edges |-> SortTokens(OverlapTokens(seqs, r))]]

WellFormedStreams == { WellFormedStream(seqs) : seqs \in [1..NumRecords -> UnitigSequences] }

(* Streams whose adjacency is symmetric (every token has its reverse token in
   the neighbor's record) but otherwise free: up to MaxLinks tokens and their
   reverses, and one sequence for each value of the self-mirror-edge flag *)
TokenAt(r, e) == [rec |-> r, edge |-> e]

ReverseToken(t) ==
    TokenAt(t.edge.to_node, Edge(~t.edge.to_side, t.rec, ~t.edge.from_side))

AllTokens(n) ==
    { TokenAt(r, Edge(fs, j, ts)) : r \in 0..(n - 1), fs \in BOOLEAN, j \in 0..(n - 1), ts \in BOOLEAN }

RECURSIVE SubsetsUpTo(_, _)
SubsetsUpTo(S, k) ==
    IF k = 0 THEN {{}}
    ELSE LET P == SubsetsUpTo(S, k - 1)
         IN P \cup { p \cup {x} : p \in P, x \in S }

SymmetricClosure(S) == S \cup { ReverseToken(t) : t \in S }

FlagSequences == { <<"A", "A", "A", "A">>, <<"A", "A", "T", "T">> }

StreamOf(tokens, seqs) ==
    [r \in 1..Len(seqs) |->
        [id |-> r - 1, seq |-> seqs[r],
         edges |-> SortTokens({ t.edge : t \in { u \in tokens : u.rec = r - 1 } })]]

SymmetricStreams ==
    { StreamOf(SymmetricClosure(S), seqs) :
        S \in SubsetsUpTo(AllTokens(FreeRecords), MaxLinks),
        seqs \in [1..FreeRecords -> FlagSequences] }

-----------------------------------------------------------------------------

Init ==
    /\ input \in WellFormedStreams \cup SymmetricStreams
    /\ idx = 1
    /\ pc = "head"
    /\ node_map = <<>>
    /\ node_count = 0
    /\ mirror_of = <<>>
    /\ graph_edges = <<>>
    /\ rewrites = {}
    /\ fasta = <<>>
    /\ result = "Pending"
    /\ target_sequence_store = StoredSequences(input)
    /\ NoDot

Next ==
    \/ HeadResolve
    \/ HeadAssign
    \/ TailResolve
    \/ TailAssign
    \/ AddEdges

Spec == Init /\ [][Next]_vars

-----------------------------------------------------------------------------
(* The container as a value: nodes 0 .. node_count - 1, their registered
   mirrors, and the edges in insertion order *)

graph == [node_count |-> node_count, mirror_of |-> mirror_of, edges |-> graph_edges]

(* BidirectedData::mirror of the record payload *)
MirrorData(d) == [id |-> d.id, forwards |-> ~d.forwards]

(* the edges that are a mirror of edge i of g: from mirror(to) to
   mirror(from), with the mirrored payload *)
MirrorEdges(g, i) ==
    { j \in 1..Len(g.edges) :
        /\ g.edges[j].from = g.mirror_of[g.edges[i].to + 1]
        /\ g.edges[j].to = g.mirror_of[g.edges[i].from + 1]
        /\ g.edges[j].data = MirrorData(g.edges[i].data) }

-----------------------------------------------------------------------------
(* The hash-based reader: nodes are keyed by the content of the (k-1)-mers *)

get_or_create_node(g, id_map, genome) ==
    IF genome \in DOMAIN id_map
    THEN [graph |-> g, id_map |-> id_map, node |-> id_map[genome]]
    ELSE LET node == g.node_count
             reverse_complement == ReverseComplement(genome)
         IN IF reverse_complement = genome
            THEN [graph |-> [g EXCEPT !.node_count = node + 1,
                                      !.mirror_of = @ \o <<node>>],
                  id_map |-> (genome :> node) @@ id_map,
                  node |-> node]
            ELSE [graph |-> [g EXCEPT !.node_count = node + 2,
                                      !.mirror_of = @ \o <<node + 1, node>>],
                  id_map |-> (genome :> node) @@ (reverse_complement :> node + 1) @@ id_map,
                  node |-> node]

(* One iteration of the loop of the hash-based reader *)
OldReadRecord(st, rec) ==
    LET prefix == Prefix(rec.seq, KmerSize - 1)
        suffix == Suffix(rec.seq, KmerSize - 1)
        pre_plus == get_or_create_node(st.graph, st.id_map, prefix)
        pre_minus == get_or_create_node(pre_plus.graph, pre_plus.id_map, ReverseComplement(suffix))
        succ_plus == get_or_create_node(pre_minus.graph, pre_minus.id_map, suffix)
        succ_minus == get_or_create_node(succ_plus.graph, succ_plus.id_map, ReverseComplement(prefix))
    IN [graph |-> [succ_minus.graph EXCEPT !.edges = @ \o
                      << GraphEdge(pre_plus.node, succ_plus.node, rec.id, TRUE),
                         GraphEdge(pre_minus.node, succ_minus.node, rec.id, FALSE) >>],
        id_map |-> succ_minus.id_map]

RECURSIVE OldReadRecords(_, _)
OldReadRecords(st, stream) ==
    IF stream = <<>> THEN st
    ELSE OldReadRecords(OldReadRecord(st, Head(stream)), Tail(stream))

EmptyGraph == [node_count |-> 0, mirror_of |-> <<>>, edges |-> <<>>]

read_bigraph_from_bcalm2_as_edge_centric_old(stream) ==
    OldReadRecords([graph |-> EmptyGraph, id_map |-> <<>>], stream).graph

-----------------------------------------------------------------------------
(* The edge-centric writer *)

mirror_edge_edge_centric(g, i) == CHOOSE j \in MirrorEdges(g, i) : TRUE

(* first loop of the writer: an edge is an output edge unless its mirror
   already is one *)
RECURSIVE MarkOutputEdges(_, _, _)
MarkOutputEdges(g, i, output_edges) ==
    IF i > Len(g.edges) THEN output_edges
    ELSE MarkOutputEdges(g, i + 1,
            IF ~output_edges[mirror_edge_edge_centric(g, i)]
            THEN [output_edges EXCEPT ![i] = TRUE]
            ELSE output_edges)

(* Variant that marks the edge whose mirror comes first *)
OutputEdges_MirrorOfFirst(g) ==
    LET marked == MarkOutputEdges(g, 1, [i \in 1..Len(g.edges) |-> FALSE])
    IN [i \in 1..Len(g.edges) |-> ~marked[i]]

OutputEdges(g) == MarkOutputEdges(g, 1, [i \in 1..Len(g.edges) |-> FALSE])

out_neighbors(g, node) == { j \in 1..Len(g.edges) : g.edges[j].from = node }

(* Variant that prints every neighbor with a + *)
NeighborToken_AlwaysPlus(g, output_edges, side, j) ==
    Edge(side,
         IF output_edges[j] THEN g.edges[j].data.id
         ELSE g.edges[mirror_edge_edge_centric(g, j)].data.id,
         TRUE)

(* (side, id of the record of the neighbor edge, orientation of the neighbor edge) *)
NeighborToken(g, output_edges, side, j) ==
    Edge(side,
         IF output_edges[j] THEN g.edges[j].data.id
         ELSE g.edges[mirror_edge_edge_centric(g, j)].data.id,
         output_edges[j])

WrittenRecord(g, output_edges, stream, i) ==
    LET node_data == g.edges[i].data
        mirror_edge_id == mirror_edge_edge_centric(g, i)
        to_node_plus == g.edges[i].to
        to_node_minus == g.edges[mirror_edge_id].to
        out_neighbors_plus ==
            { NeighborToken(g, output_edges, TRUE, j) : j \in out_neighbors(g, to_node_plus) }
        out_neighbors_minus ==
            { NeighborToken(g, output_edges, FALSE, j) : j \in out_neighbors(g, to_node_minus) }
        node_sequence == stream[node_data.id + 1].seq
    IN [id |-> node_data.id,
        seq |-> IF node_data.forwards THEN node_sequence ELSE ReverseComplement(node_sequence),
        edges |-> SortTokens(out_neighbors_plus) \o SortTokens(out_neighbors_minus)]

RECURSIVE WriteRecords(_, _, _, _)
WriteRecords(g, output_edges, stream, i) ==
    IF i > Len(g.edges) THEN <<>>
    ELSE (IF output_edges[i] THEN <<WrittenRecord(g, output_edges, stream, i)>> ELSE <<>>)
            \o WriteRecords(g, output_edges, stream, i + 1)

(* the records written for g, the sequences looked up in the store the
   stream was read into; an edge without mirror is an error *)
write_edge_centric_bigraph_to_bcalm2(g, stream) ==
    IF \E i \in 1..Len(g.edges) : MirrorEdges(g, i) = {}
    THEN <<"BCalm2EdgeWithoutMirror">>
    ELSE WriteRecords(g, OutputEdges(g), stream, 1)

-----------------------------------------------------------------------------
(* Classes of record streams the claims speak about *)

(* ids consecutive from 0, in arrival order *)
ConsecutiveIds(stream) == \A r \in 1..Len(stream) : stream[r].id = r - 1

(* if A declares an edge to B, B declares the matching reverse edge to A *)
IsSymmetric(stream) ==
    \A r \in 1..Len(stream) : \A i \in 1..Len(stream[r].edges) :
        LET t == ReverseToken(TokenAt(stream[r].id, stream[r].edges[i]))
        IN /\ t.rec < Len(stream)
           /\ SeqContains(stream[t.rec + 1].edges, t.edge)

(* the adjacency lists are exactly the (k-1)-overlaps of the sequences, in
   canonical order: what bcalm2 emits *)
IsCanonical(es) == \A i \in 1..(Len(es) - 1) : TokenLess(es[i], es[i + 1])

IsOverlapStream(stream) ==
    LET seqs == [r \in 1..Len(stream) |-> stream[r].seq]
    IN \A r \in 1..Len(stream) :
        /\ { stream[r].edges[i] : i \in 1..Len(stream[r].edges) } = OverlapTokens(seqs, r)
        /\ IsCanonical(stream[r].edges)

(* The two edges of the record with id r, once emitted *)
ForwardEdge(r) == graph_edges[2 * r + 1]

BackwardEdge(r) == graph_edges[2 * r + 2]

OrientedEdge(r, side) == IF side THEN ForwardEdge(r) ELSE BackwardEdge(r)

Slot(i) == node_map[i + 1]

-----------------------------------------------------------------------------
(* C1: adjacency realization.  After the full pass every declared adjacency
   entry (from_side, to, to_side) of every record r is realized: the edge of
   r in orientation from_side ends at the node at which the edge of record
   `to` in orientation to_side starts, and the final endpoint map relates the
   two endpoint slots accordingly. *)
RealizedInGraph(r, e) ==
    OrientedEdge(r, e.from_side).to = OrientedEdge(e.to_node, e.to_side).from

RealizedInMap(r, e) ==
    CASE e.from_side /\ e.to_side -> Slot(2 * r + 1) = Slot(2 * e.to_node)
      [] e.from_side /\ ~e.to_side -> Slot(2 * r + 1) = MirrorMapped(Slot(2 * e.to_node + 1))
      [] ~e.from_side /\ e.to_side -> Slot(2 * r) = MirrorMapped(Slot(2 * e.to_node))
      [] ~e.from_side /\ ~e.to_side -> Slot(2 * r) = Slot(2 * e.to_node + 1)

AllRealized ==
    \A r \in 1..Len(input) : \A i \in 1..Len(input[r].edges) :
        /\ RealizedInGraph(input[r].id, input[r].edges[i])
        /\ RealizedInMap(input[r].id, input[r].edges[i])

(* C1 as claimed: for every stream with consecutive ids and symmetric
   adjacency *)
C1_RealizedIfSymmetric ==
    (pc = "done" /\ ConsecutiveIds(input) /\ IsSymmetric(input)) => AllRealized

(* C1 as amended: for every stream with consecutive ids whose adjacency is
   exactly the (k-1)-overlaps of its sequences *)
C1_RealizedIfOverlaps ==
    (pc = "done" /\ ConsecutiveIds(input) /\ IsOverlapStream(input)) => AllRealized

(* a finished pass over an overlap stream that declares entries of all four
   shapes towards other records *)
C1_Witness ==
    /\ pc = "done"
    /\ IsOverlapStream(input)
    /\ \A fs \in BOOLEAN, ts \in BOOLEAN :
          \E r \in 1..Len(input) : \E i \in 1..Len(input[r].edges) :
              /\ input[r].edges[i].from_side = fs
              /\ input[r].edges[i].to_side = ts
              /\ input[r].edges[i].to_node # input[r].id

-----------------------------------------------------------------------------
(* C2: write-once endpoint map.  Once a slot of node_map holds a mapped
   value, no later search, allocation or propagation step, of the same or of
   a later record, changes it to a different value. *)
MappedSlotsKept ==
    \A i \in 1..Len(node_map) : node_map[i] # Unmapped => node_map'[i] = node_map[i]

NoChangingRewrite == \A w \in rewrites : w.new = w.old

-----------------------------------------------------------------------------
(* C3: guarded propagation.  In the propagation step of the head and of the
   tail resolution the resolved (possibly mirrored) value reaches the slot of
   every neighbor the scanned entries name, and a neighbor slot that is
   already mapped when propagation reaches it is left unchanged. *)
InPropagation == pc \in {"head_assign", "tail_assign"}

PropagatedEdges == IF pc = "head_assign" THEN IncomingEdges(record) ELSE OutgoingEdges(record)

PropagatedSlot == IF pc = "head_assign" THEN n1 ELSE n2

(* after the step every scanned neighbor slot holds the value of the resolved
   endpoint, mirrored when the entry changes sides, and no other slot changed *)
NeighborsHoldResolved ==
    /\ \A i \in 1..Len(PropagatedEdges) :
          node_map'[ToSlot(PropagatedEdges[i]) + 1] =
              AcrossEdge(pc = "head_assign", PropagatedEdges[i], node_map'[PropagatedSlot + 1])
    /\ \A j \in 1..Len(node_map) :
          (\A i \in 1..Len(PropagatedEdges) : ToSlot(PropagatedEdges[i]) + 1 # j)
              => node_map'[j] = node_map[j]

-----------------------------------------------------------------------------
(* The container as the claims read it *)

MirrorNode(n) == mirror_of[n + 1]

Nodes == 0..(node_count - 1)

AtRecordBoundary == pc \in {"head", "done"}

MirrorEdgesOf(i) == MirrorEdges(graph, i)

-----------------------------------------------------------------------------
(* C4: mirror-edge invariant.  After each record has been processed, at every
   record boundary and not only at the end of the pass, every edge
   (u -> v, p) of the container has exactly one edge
   (mirror(v) -> mirror(u), mirror(p)): the two are added in the same step. *)
C4_MirrorEdgeAtBoundary ==
    AtRecordBoundary =>
        \A i \in 1..Len(graph_edges) : Cardinality(MirrorEdgesOf(i)) = 1

(* a boundary inside the pass where two records are parallel edges between
   the same two nodes *)
C4_Witness ==
    /\ pc = "head"
    /\ \E i, j \in 1..Len(graph_edges) :
          /\ i # j
          /\ graph_edges[i].from = graph_edges[j].from
          /\ graph_edges[i].to = graph_edges[j].to
          /\ graph_edges[i].data.id # graph_edges[j].data.id

-----------------------------------------------------------------------------
(* C5: two edges per record.  Processing a record adds exactly the two edges
   (head.forward -> tail.forward, payload) and
   (tail.backward -> head.backward, mirror(payload)), forward = backward = n
   for SelfMirror(n); no other step adds or removes an edge; after N records
   the container holds 2N edges. *)
ForwardOf(v) == v.forward

BackwardOf(v) == IF v.kind = "SelfMirror" THEN v.forward ELSE v.backward

TwoEdgesAdded ==
    LET head == node_map[n1 + 1]
        tail == node_map[n2 + 1]
        payload == [id |-> record.id, forwards |-> TRUE]
    IN graph_edges' = graph_edges \o
          << [from |-> ForwardOf(head), to |-> ForwardOf(tail), data |-> payload],
             [from |-> BackwardOf(tail), to |-> BackwardOf(head), data |-> MirrorData(payload)] >>

C5_TwoEdgesPerRecord ==
    /\ [][IF idx' = idx + 1 THEN TwoEdgesAdded ELSE graph_edges' = graph_edges]_vars
    /\ [](Len(graph_edges) = 2 * (idx - 1))
    /\ [](pc = "done" => Len(graph_edges) = 2 * Len(input))

(* the pass is over and one of the records ends in a SelfMirror endpoint *)
C5_Witness ==
    /\ pc = "done"
    /\ Len(graph_edges) = 2 * NumRecords
    /\ \E r \in 1..Len(input) : node_map[2 * r].kind = "SelfMirror"
    /\ \E r \in 1..Len(input) : node_map[2 * r].kind = "Normal"

-----------------------------------------------------------------------------
(* C6: node pairing.  At every record boundary every container node has a
   registered mirror, mirror(mirror(n)) = n, and mirror(n) = n exactly for the
   nodes that were allocated as SelfMirror. *)
NodePairing ==
    /\ Len(mirror_of) = node_count
    /\ \A n \in Nodes : MirrorNode(n) \in Nodes /\ MirrorNode(MirrorNode(n)) = n

(* what the endpoint map says of a node agrees with its registered mirror *)
MapAgreesWithMirrors ==
    \A i \in 1..Len(node_map) :
        /\ node_map[i].kind = "SelfMirror" =>
              MirrorNode(node_map[i].forward) = node_map[i].forward
        /\ node_map[i].kind = "Normal" =>
              /\ MirrorNode(node_map[i].forward) = node_map[i].backward
              /\ node_map[i].forward # node_map[i].backward

(* an allocation adds one node that is its own mirror and is recorded as
   SelfMirror, or two nodes that are each other's mirror and are recorded as
   Normal; the registered mirrors of the nodes there already never change *)
AllocatedSlot == IF pc = "head" THEN n1 ELSE n2

AllocationStep ==
    \/ /\ node_count' = node_count
       /\ mirror_of' = mirror_of
    \/ /\ node_count' = node_count + 1
       /\ mirror_of' = mirror_of \o <<node_count>>
       /\ node_map'[AllocatedSlot + 1] = SelfMirror(node_count)
    \/ /\ node_count' = node_count + 2
       /\ mirror_of' = mirror_of \o <<node_count + 1, node_count>>
       /\ node_map'[AllocatedSlot + 1] = Normal(node_count, node_count + 1)

C6_NodePairing ==
    /\ [](AtRecordBoundary => (NodePairing /\ MapAgreesWithMirrors))
    /\ [][AllocationStep]_vars

(* the pass is over with a node that is its own mirror and one that is not *)
C6_Witness ==
    /\ pc = "done"
    /\ \E n \in Nodes : MirrorNode(n) = n
    /\ \E n \in Nodes : MirrorNode(n) # n

-----------------------------------------------------------------------------
(* C7: equivalence of the two resolution strategies.  For every well-formed
   input (the adjacency is the (k-1)-overlaps of the sequences; self-mirror
   nodes, self-mirror edges and parallel edges included) the graph of the
   adjacency-propagation reader and the graph of the hash-based reader are
   equal up to renaming of node handles: same node count, same self-mirror
   nodes, same sharing of nodes between record endpoints, and the same
   serialized output. *)
old_graph == read_bigraph_from_bcalm2_as_edge_centric_old(input)

(* the nodes the two graphs give to the same endpoint of the same edge *)
NodeCorrespondence(g, h) ==
    { <<g.edges[i].from, h.edges[i].from>> : i \in 1..Len(g.edges) }
        \cup { <<g.edges[i].to, h.edges[i].to>> : i \in 1..Len(g.edges) }

EqualUpToRenaming(g, h) ==
    LET R == NodeCorrespondence(g, h)
    IN /\ Len(g.edges) = Len(h.edges)
       /\ \A i \in 1..Len(g.edges) : g.edges[i].data = h.edges[i].data
       /\ g.node_count = h.node_count
       /\ \A p \in R : \A q \in R : (p[1] = q[1]) <=> (p[2] = q[2])
       /\ { p[1] : p \in R } = 0..(g.node_count - 1)
       /\ { p[2] : p \in R } = 0..(h.node_count - 1)
       /\ \A p \in R : <<g.mirror_of[p[1] + 1], h.mirror_of[p[2] + 1]>> \in R
       /\ Cardinality({ n \in 0..(g.node_count - 1) : g.mirror_of[n + 1] = n })
             = Cardinality({ n \in 0..(h.node_count - 1) : h.mirror_of[n + 1] = n })

C7_ReadersEquivalent ==
    (pc = "done" /\ ConsecutiveIds(input) /\ IsOverlapStream(input))
        => /\ EqualUpToRenaming(graph, old_graph)
           /\ write_edge_centric_bigraph_to_bcalm2(graph, input)
                 = write_edge_centric_bigraph_to_bcalm2(old_graph, input)

(* What the two readers do agree on for an overlap stream: the serialized
   output, and the graph of the hash-based reader is the graph of the
   propagation reader with nodes merged (the correspondence is a function
   onto its nodes that respects mirrors) *)
ReadersAgreeOnOutput ==
    (pc = "done" /\ ConsecutiveIds(input) /\ IsOverlapStream(input))
        => LET R == NodeCorrespondence(graph, old_graph)
           IN /\ write_edge_centric_bigraph_to_bcalm2(graph, input)
                    = write_edge_centric_bigraph_to_bcalm2(old_graph, input)
              /\ \A p \in R : \A q \in R : (p[1] = q[1]) => (p[2] = q[2])
              /\ { p[1] : p \in R } = 0..(node_count - 1)
              /\ { p[2] : p \in R } = 0..(old_graph.node_count - 1)
              /\ \A p \in R : <<mirror_of[p[1] + 1], old_graph.mirror_of[p[2] + 1]>> \in R
              /\ node_count >= old_graph.node_count

-----------------------------------------------------------------------------
(* C8: edge-centric round trip.  Reading a stream with
   read_bigraph_from_bcalm2_as_edge_centric and writing the graph with
   write_edge_centric_bigraph_to_bcalm2 reproduces the stream: the same
   records in the same order, each with the same list of adjacency tokens
   and the same sequence. *)
AllCanonical(stream) == \A r \in 1..Len(stream) : IsCanonical(stream[r].edges)

RoundTrip == write_edge_centric_bigraph_to_bcalm2(graph, input) = input

(* C8 as claimed: for input with consecutive ids and symmetric adjacency
   whose tokens are in canonical order *)
C8_RoundTripIfSymmetric ==
    (pc = "done" /\ ConsecutiveIds(input) /\ IsSymmetric(input) /\ AllCanonical(input))
        => RoundTrip

(* C8 as amended: for input whose adjacency is the (k-1)-overlaps of the
   sequences, in canonical order *)
C8_RoundTripIfOverlaps ==
    (pc = "done" /\ ConsecutiveIds(input) /\ IsOverlapStream(input)) => RoundTrip

(* a finished pass over an overlap stream in which some record lists tokens
   on both sides and some record lists a neighbor in both orientations *)
C8_Witness ==
    /\ pc = "done"
    /\ IsOverlapStream(input)
    /\ \E r \in 1..Len(input) :
          /\ IncomingEdges(input[r]) # <<>>
          /\ OutgoingEdges(input[r]) # <<>>
    /\ \E r \in 1..Len(input) : \E j \in 0..(Len(input) - 1) :
          /\ j # r - 1
          /\ SeqContains(input[r].edges, Edge(TRUE, j, TRUE))
          /\ SeqContains(input[r].edges, Edge(TRUE, j, FALSE))

-----------------------------------------------------------------------------
(* C9: self-mirror-edge shortcut.  For every record whose boundary overlap is
   palindromic (the reverse complement of its first k-1 characters is its
   last k-1 characters), after the record is processed its tail identity is
   mirror(head identity), resolving the tail allocated no container node, and
   its forward edge goes from a node n to mirror(n). *)
HasPalindromicBoundary(seq) ==
    ReverseComplement(Prefix(seq, KmerSize - 1)) = Suffix(seq, KmerSize - 1)

Processing == pc \in {"head", "head_assign", "tail", "tail_assign", "add_edges"}

TailMirrorsHead(r) ==
    /\ Slot(2 * r + 1) = MirrorMapped(Slot(2 * r))
    /\ ForwardEdge(r).to = MirrorNode(ForwardEdge(r).from)

ShortcutHolds ==
    /\ \A r \in 0..(idx - 2) :
          HasPalindromicBoundary(input[r + 1].seq) => TailMirrorsHead(r)
    /\ (pc \in {"tail_assign", "add_edges"} /\ HasPalindromicBoundary(record.seq))
          => Slot(n2) = MirrorMapped(Slot(n1))

TailAllocatesNothing ==
    (pc = "tail" /\ HasPalindromicBoundary(record.seq)) => node_count' = node_count

(* C9 as claimed: for input with consecutive ids and symmetric adjacency *)
C9_ShortcutIfSymmetric ==
    /\ []((Processing \/ pc = "done")
            => (ShortcutHolds \/ ~(ConsecutiveIds(input) /\ IsSymmetric(input))))
    /\ [][TailAllocatesNothing]_vars

(* C9 as amended: for input whose adjacency is the (k-1)-overlaps of the
   sequences *)
C9_ShortcutIfOverlaps ==
    /\ []((Processing \/ pc = "done")
            => (ShortcutHolds \/ ~(ConsecutiveIds(input) /\ IsOverlapStream(input))))
    /\ [][TailAllocatesNothing]_vars

(* the shortcut has just given the tail of a later record of an overlap
   stream the mirror of a head that is a pair of two nodes *)
C9_Witness ==
    /\ pc = "tail_assign"
    /\ idx > 1
    /\ IsOverlapStream(input)
    /\ HasPalindromicBoundary(record.seq)
    /\ Slot(n1).kind = "Normal"
    /\ Slot(n2) = Normal(Slot(n1).backward, Slot(n1).forward)

-----------------------------------------------------------------------------
(* C10: isolated self-complementary record.  A record whose full sequence is
   its own reverse complement and that has no adjacency entries. *)
IsolatedSelfComplementary(rec) ==
    /\ rec.seq = ReverseComplement(rec.seq)
    /\ rec.edges = <<>>

NodesCreatedByStep == node_count' - node_count

(* C10 as claimed: the record collapses to a single self-mirror node: head
   and tail resolve to the same SelfMirror identity and exactly one container
   node is created for the record *)
C10_SingleSelfMirrorNode ==
    /\ []((pc = "add_edges" /\ IsolatedSelfComplementary(record))
            => /\ Slot(n1).kind = "SelfMirror"
               /\ Slot(n2) = Slot(n1))
    /\ [][(Processing /\ IsolatedSelfComplementary(record))
            => NodesCreatedByStep = (IF pc = "head" THEN 1 ELSE 0)]_vars

(* C10 as amended: the record yields one pair of mirror nodes shared by both
   its endpoints: the head resolves to Normal(f, b) with f # b, the tail to
   its mirror Normal(b, f), exactly two container nodes are created for the
   record, and both its edges go from f to b *)
C10_SingleMirrorPair ==
    /\ []((pc = "add_edges" /\ IsolatedSelfComplementary(record))
            => /\ Slot(n1).kind = "Normal"
               /\ Slot(n1).forward # Slot(n1).backward
               /\ MirrorNode(Slot(n1).forward) = Slot(n1).backward
               /\ Slot(n2) = Normal(Slot(n1).backward, Slot(n1).forward))
    /\ [][(Processing /\ IsolatedSelfComplementary(record))
            => /\ NodesCreatedByStep = (IF pc = "head" THEN 2 ELSE 0)
               /\ pc = "add_edges" =>
                     /\ graph_edges'[2 * idx - 1].from = Slot(n1).forward
                     /\ graph_edges'[2 * idx - 1].to = Slot(n1).backward
                     /\ graph_edges'[2 * idx].from = Slot(n1).forward
                     /\ graph_edges'[2 * idx].to = Slot(n1).backward]_vars

(* an isolated self-complementary record, not the first of an overlap
   stream, is about to have its edges added *)
C10_Witness ==
    /\ pc = "add_edges"
    /\ idx > 1
    /\ IsOverlapStream(input)
    /\ IsolatedSelfComplementary(record)

-----------------------------------------------------------------------------
(* Linear chains: ChainLength unitigs, unitig i running from the i-th to the
   (i+1)-th of ChainLength + 1 (k-1)-mers no two of which overlap, each
   unitig given forwards or as its reverse complement, under every numbering
   of the records; and the stream of test_edge_read_write *)

ChainLength == 3

ChainLabels ==
    << <<"A", "A">>, <<"A", "C">>, <<"A", "G">>, <<"C", "A">>, <<"C", "C">>, <<"G", "A">> >>

ChainUnitig(i) == ChainLabels[i] \o ChainLabels[i + 1]

ChainStream(position, forwards) ==
    WellFormedStream([r \in 1..ChainLength |->
        IF forwards[r] THEN ChainUnitig(position[r])
        ELSE ReverseComplement(ChainUnitig(position[r]))])

ChainStreams ==
    { ChainStream(position, forwards) :
        position \in { p \in [1..ChainLength -> 1..ChainLength] :
                         \A a, b \in 1..ChainLength : p[a] = p[b] => a = b },
        forwards \in [1..ChainLength -> BOOLEAN] }

test_edge_read_write ==
    << [id |-> 0, seq |-> <<"A", "G", "T">>, edges |-> <<Edge(TRUE, 1, FALSE)>>],
       [id |-> 1,
        seq |-> <<"A", "A", "T", "C", "T", "C", "G", "G", "G", "T", "A", "A", "A", "C">>,
        edges |-> <<Edge(TRUE, 0, FALSE), Edge(TRUE, 2, TRUE)>>],
       [id |-> 2, seq |-> <<"A", "C", "G", "A", "G", "G">>, edges |-> <<Edge(FALSE, 1, FALSE)>>] >>

ChainInit ==
    /\ input \in ChainStreams \cup {test_edge_read_write}
    /\ idx = 1
    /\ pc = "head"
    /\ node_map = <<>>
    /\ node_count = 0
    /\ mirror_of = <<>>
    /\ graph_edges = <<>>
    /\ rewrites = {}
    /\ fasta = <<>>
    /\ result = "Pending"
    /\ target_sequence_store = StoredSequences(input)
    /\ NoDot

ChainSpec == ChainInit /\ [][Next]_vars

-----------------------------------------------------------------------------
(* C11: linear chain.  Three records forming a simple linear chain
   0 -> 1 -> 2 through single adjacency tokens (with the matching reverse
   tokens) yield a graph with a fixed number of nodes, all in mirrored pairs,
   and exactly 2 directed edges per record. *)
EdgesOfRecord(r) == { i \in 1..Len(graph_edges) : graph_edges[i].data.id = r }

TwoEdgesEach ==
    /\ Len(graph_edges) = 2 * Len(input)
    /\ \A r \in 1..Len(input) : Cardinality(EdgesOfRecord(input[r].id)) = 2

AllNodesPaired == \A n \in Nodes : MirrorNode(n) # n /\ MirrorNode(MirrorNode(n)) = n

(* C11 as claimed: 6 nodes (3 mirrored pairs) and 6 edges for three records *)
C11_ChainOfThreeHasSixNodes ==
    (pc = "done" /\ Len(input) = 3)
        => (node_count = 6 /\ AllNodesPaired /\ Len(graph_edges) = 6 /\ TwoEdgesEach)

(* C11 as amended: a chain of n records has n + 1 junctions, dead ends
   included, hence 2 * (n + 1) nodes in n + 1 mirrored pairs: 8 nodes (4
   pairs) and 6 edges for three records; the pass returns Ok and writing the
   graph reproduces the stream *)
C11_ChainNodesAndEdges ==
    /\ pc # "panicked"
    /\ pc = "done" =>
          /\ result = "Ok"
          /\ node_count = 2 * (Len(input) + 1)
          /\ AllNodesPaired
          /\ TwoEdgesEach
          /\ RoundTrip

(* the pass is over for the chain 0 -> 1 -> 2 with every unitig forwards *)
C11_Witness ==
    /\ pc = "done"
    /\ Len(input) >= 3
    /\ \A r \in 1..Len(input) :
          input[r].edges =
              (IF r < Len(input) THEN <<Edge(TRUE, r, TRUE)>> ELSE <<>>)
                 \o (IF r > 1 THEN <<Edge(FALSE, r - 2, FALSE)>> ELSE <<>>)

-----------------------------------------------------------------------------
(* C12: parallel edges are preserved.  When two adjacency relations connect
   the same pair of node identities (two records that resolve to the same
   head identity and the same tail identity), the container holds a separate
   forward edge and a separate mirror edge for each of them: add_edge is
   never skipped or merged because an edge between the same endpoints already
   exists. *)
EdgesWithData(id, forwards) ==
    { i \in 1..Len(graph_edges) : graph_edges[i].data = [id |-> id, forwards |-> forwards] }

EdgesBetween(u, v) ==
    { i \in 1..Len(graph_edges) : graph_edges[i].from = u /\ graph_edges[i].to = v }

(* the records processed so far whose edge in the given orientation runs
   from u to v *)
RelationsBetween(u, v) ==
    { ro \in (0..(idx - 2)) \X BOOLEAN :
        \E i \in EdgesWithData(ro[1], ro[2]) : i \in EdgesBetween(u, v) }

C12_ParallelEdgesKept ==
    AtRecordBoundary =>
        /\ \A r \in 0..(idx - 2) :
              /\ Cardinality(EdgesWithData(r, TRUE)) = 1
              /\ Cardinality(EdgesWithData(r, FALSE)) = 1
              /\ \A i \in EdgesWithData(r, TRUE) : \A j \in EdgesWithData(r, FALSE) :
                    /\ graph_edges[j].from = MirrorNode(graph_edges[i].to)
                    /\ graph_edges[j].to = MirrorNode(graph_edges[i].from)
        /\ \A u \in Nodes : \A v \in Nodes :
              Cardinality(EdgesBetween(u, v)) = Cardinality(RelationsBetween(u, v))

(* the pass over an overlap stream is over and two records run, in the same
   orientation, between the same two nodes: as in the multigraph test *)
C12_Witness ==
    /\ pc = "done"
    /\ IsOverlapStream(input)
    /\ \E r \in 0..(Len(input) - 1) : \E q \in 0..(Len(input) - 1) :
          /\ r # q
          /\ ForwardEdge(r).from = ForwardEdge(q).from
          /\ ForwardEdge(r).to = ForwardEdge(q).to
          /\ ForwardEdge(r).from # ForwardEdge(r).to
          /\ Cardinality(EdgesBetween(ForwardEdge(r).from, ForwardEdge(r).to)) >= 2
          /\ Cardinality(EdgesBetween(BackwardEdge(r).from, BackwardEdge(r).to)) >= 2

-----------------------------------------------------------------------------
(* The reader is a sequential program: it keeps taking steps until it returns
   or panics *)
FairSpec == Spec /\ WF_vars(Next)

-----------------------------------------------------------------------------
(* C13: termination.  The build over any finite record stream terminates;
   each record is processed exactly once and each search or propagation loop
   makes at most one pass over the adjacency list of the record.  A record
   that is both self-mirror-node and self-mirror-edge, whose propagation
   writes into its own endpoint slots, causes no re-resolution and no
   repeated allocation: its head and tail end up on one SelfMirror node. *)
Terminated == pc \in {"done", "panicked"}

(* the steps of one record in the order of the loop body: resolution of the
   head (search, allocation), its propagation, resolution of the tail, its
   propagation, emission of the edges *)
PcRank ==
    CASE pc = "head" -> 0
      [] pc = "head_assign" -> 1
      [] pc = "tail" -> 2
      [] pc = "tail_assign" -> 3
      [] pc = "add_edges" -> 4
      [] pc = "panicked" -> 5
      [] OTHER -> 0

Rank == 6 * idx + PcRank

(* every step moves forward in the loop body or on to the next record, which
   happens only by emitting the edges of the current one *)
StepAdvances ==
    /\ Rank' > Rank
    /\ Rank' <= 6 * (Len(input) + 1)
    /\ idx' = (IF pc = "add_edges" /\ pc' # "panicked" THEN idx + 1 ELSE idx)

SelfMirrorNodeAndEdge(rec) ==
    /\ edge_is_self_mirror(rec.seq)
    /\ n1_is_self_mirror(rec) \/ n2_is_self_mirror(rec)

OnOneSelfMirrorNode ==
    (pc = "add_edges" /\ SelfMirrorNodeAndEdge(record))
        => (Slot(n1).kind = "SelfMirror" /\ Slot(n2) = Slot(n1))

(* such a record has at most one node allocated for it, by the resolution of
   its head *)
AllocatesAtMostOnce ==
    (Processing /\ SelfMirrorNodeAndEdge(record))
        => NodesCreatedByStep <= (IF pc = "head" THEN 1 ELSE 0)

(* C13 as claimed: for any stream *)
C13_TerminatesOnOneNode ==
    /\ <>Terminated
    /\ [][StepAdvances]_vars
    /\ [][AllocatesAtMostOnce]_vars
    /\ []OnOneSelfMirrorNode

(* C13 as amended: termination and one processing of every record hold for
   any stream; that a record that is self-mirror-node and self-mirror-edge has
   one node allocated at most and that its head and tail end up on one
   SelfMirror node holds for streams whose adjacency is the (k-1)-overlaps of
   the sequences, for which the pass also completes *)
C13_TerminatesOnOneNodeIfOverlaps ==
    /\ <>(pc = "done" \/ (pc = "panicked" /\ ~IsOverlapStream(input)))
    /\ [][StepAdvances]_vars
    /\ [][AllocatesAtMostOnce \/ ~IsOverlapStream(input)]_vars
    /\ [](OnOneSelfMirrorNode \/ ~IsOverlapStream(input))

(* the pass over an overlap stream is over; a record that is not the first
   lists all four tokens to itself and tokens to other records, as record 0
   of test_edge_read_self_mirror_node_and_edge does, and is on one node *)
C13_Witness ==
    /\ pc = "done"
    /\ IsOverlapStream(input)
    /\ \E r \in 2..Len(input) :
          /\ SelfMirrorNodeAndEdge(input[r])
          /\ \A fs \in BOOLEAN, ts \in BOOLEAN :
                SeqContains(input[r].edges, Edge(fs, input[r].id, ts))
          /\ \E i \in 1..Len(input[r].edges) : input[r].edges[i].to_node # input[r].id
          /\ Slot(2 * input[r].id).kind = "SelfMirror"
          /\ Slot(2 * input[r].id + 1) = Slot(2 * input[r].id)

-----------------------------------------------------------------------------
(* Text.  A text is a tuple of characters; the reader gets every record as
   three texts: the id (first word of the header line), the description
   (rest of the header line) and the sequence *)

Digits == << "0", "1", "2", "3", "4", "5", "6", "7", "8", "9" >>

IsDigit(c) == \E d \in 1..10 : Digits[d] = c

DigitValue(c) == (CHOOSE d \in 1..10 : Digits[d] = c) - 1

(* Option::None of a number *)
None == -1

RECURSIVE ParseDigits(_, _)
ParseDigits(s, acc) ==
    IF s = <<>> THEN acc
    ELSE IF ~IsDigit(Head(s)) THEN None
    ELSE ParseDigits(Tail(s), 10 * acc + DigitValue(Head(s)))

(* str::parse::<usize>: an optional + and at least one decimal digit; None
   stands for Err.  (Numerals of the model stay far below usize::MAX) *)
ParseUsize(s) ==
    LET digits == IF s # <<>> /\ Head(s) = "+" THEN Tail(s) ELSE s
    IN IF digits = <<>> THEN None ELSE ParseDigits(digits, 0)

(* str::parse::<f64> on texts without exponent and special values: an
   optional sign, digits with at most one point, one digit at least; FALSE
   stands for Err *)
ParseFloat(s) ==
    LET unsigned == IF s # <<>> /\ Head(s) \in {"+", "-"} THEN Tail(s) ELSE s
        points == { i \in 1..Len(unsigned) : unsigned[i] = "." }
    IN /\ Cardinality(points) <= 1
       /\ \E i \in 1..Len(unsigned) : IsDigit(unsigned[i])
       /\ \A i \in 1..Len(unsigned) : IsDigit(unsigned[i]) \/ unsigned[i] = "."

(* write!("{}", n) of a usize *)
RECURSIVE Decimal(_)
Decimal(n) ==
    IF n < 10 THEN <<Digits[n + 1]>>
    ELSE Decimal(n \div 10) \o <<Digits[(n % 10) + 1]>>

(* str::split(c): the pieces between the occurrences of c, empty ones too *)
RECURSIVE Split(_, _)
Split(s, c) ==
    IF ~SeqContains(s, c) THEN <<s>>
    ELSE LET i == CHOOSE j \in 1..Len(s) : s[j] = c /\ \A l \in 1..(j - 1) : s[l] # c
         IN <<SubSeq(s, 1, i - 1)>> \o Split(SubSeq(s, i + 1, Len(s)), c)

(* str::split_whitespace: the non-empty pieces between blanks *)
SplitWhitespace(s) == SelectSeq(Split(s, " "), LAMBDA word : word # <<>>)

RECURSIVE Join(_)
Join(words) ==
    IF words = <<>> THEN <<>>
    ELSE IF Len(words) = 1 THEN words[1]
    ELSE words[1] \o <<" ">> \o Join(Tail(words))

-----------------------------------------------------------------------------
(* parse_bcalm2_fasta_record *)

NoError == "None"

LengthKey == << "L", "N", ":", "i", ":" >>

TotalAbundanceKey == << "K", "C", ":", "i", ":" >>

MeanAbundanceKeys == { << "K", "M", ":", "f", ":" >>, << "k", "m", ":", "f", ":" >> }

Sides == { <<"+">>, <<"-">> }

(* Variant of the final check that accepts every declared length *)
LengthMatches_Always(length, sequence) == TRUE

(* if let Some(length) = length { if length != sequence.len() { Err } } *)
LengthMatches(length, sequence) == length = None \/ length = Len(sequence)

(* the state of the parameter loop: the fields collected so far and the
   error it returned with, if any *)
NoParameters ==
    [length |-> None, total_abundance |-> None, mean_abundance |-> FALSE,
     edges |-> <<>>, error |-> NoError]

Failed(st, error) == [st EXCEPT !.error = error]

(* the arm of an adjacency token *)
ParseLink(st, parameter) ==
    LET parts == Split(parameter, ":")
    IN IF Len(parts) # 4 THEN Failed(st, "BCalm2MalformedParameterError")
       ELSE IF parts[2] \notin Sides THEN Failed(st, "BCalm2MalformedParameterError")
       ELSE IF ParseUsize(parts[3]) = None THEN Failed(st, "BCalm2MalformedParameterError")
       ELSE IF parts[4] \notin Sides THEN Failed(st, "BCalm2MalformedParameterError")
       ELSE [st EXCEPT !.edges =
                Append(@, Edge(parts[2] = <<"+">>, ParseUsize(parts[3]), parts[4] = <<"+">>))]

(* one iteration of the loop over the parameters of the header *)
ParseParameter(st, parameter) ==
    IF Len(parameter) < 5 THEN Failed(st, "BCalm2UnknownParameterError")
    ELSE LET key == SubSeq(parameter, 1, 5)
             value == SubSeq(parameter, 6, Len(parameter))
         IN IF key = LengthKey
            THEN IF st.length # None THEN Failed(st, "BCalm2DuplicateParameterError")
                 ELSE IF ParseUsize(value) = None THEN Failed(st, "BCalm2MalformedParameterError")
                 ELSE [st EXCEPT !.length = ParseUsize(value)]
            ELSE IF key = TotalAbundanceKey
            THEN IF st.total_abundance # None THEN Failed(st, "BCalm2DuplicateParameterError")
                 ELSE IF ParseUsize(value) = None THEN Failed(st, "BCalm2MalformedParameterError")
                 ELSE [st EXCEPT !.total_abundance = ParseUsize(value)]
            ELSE IF key \in MeanAbundanceKeys
            THEN IF st.mean_abundance THEN Failed(st, "BCalm2DuplicateParameterError")
                 ELSE IF ~ParseFloat(value) THEN Failed(st, "BCalm2MalformedParameterError")
                 ELSE [st EXCEPT !.mean_abundance = TRUE]
            ELSE IF SubSeq(parameter, 1, 2) = << "L", ":" >>
            THEN ParseLink(st, parameter)
            ELSE Failed(st, "BCalm2UnknownParameterError")

(* the loop returns with the first error *)
RECURSIVE ParseParameters(_, _)
ParseParameters(st, parameters) ==
    IF parameters = <<>> \/ st.error # NoError THEN st
    ELSE ParseParameters(ParseParameter(st, Head(parameters)), Tail(parameters))

(* the parsed record, or the error in the field error *)
parse_bcalm2_fasta_record(rec) ==
    LET id == ParseUsize(rec.id)
        st == ParseParameters(NoParameters, SplitWhitespace(rec.desc))
        error == IF id = None THEN "BCalm2IdError"
                 ELSE IF st.error # NoError THEN st.error
                 ELSE IF ~LengthMatches(st.length, rec.seq) THEN "BCalm2LengthError"
                 ELSE NoError
    IN [error |-> error, id |-> id, seq |-> rec.seq, edges |-> st.edges, length |-> st.length]

(* Variant that adds the sequence once the record has been accepted *)
StoreAfterParse_AddsWhenAccepted(store, rec) ==
    IF parse_bcalm2_fasta_record(rec).error # NoError THEN store
    ELSE add_from_slice_u8(store, rec.seq)

(* the store after parse_bcalm2_fasta_record(rec, store): the sequence is
   added as soon as the id has been parsed, before the parameters are looked
   at and the length is compared *)
StoreAfterParse(store, rec) ==
    IF ParseUsize(rec.id) = None THEN store
    ELSE add_from_slice_u8(store, rec.seq)

(* Variant of the reader that goes on with the next record after an error *)
ParseRecord_SkipsRecord ==
    /\ pc = "parse"
    /\ LET parsed == parse_bcalm2_fasta_record(fasta[idx])
       IN IF parsed.error # NoError
          THEN /\ input' = Append(input, [id |-> idx - 1, seq |-> parsed.seq, edges |-> <<>>])
               /\ pc' = "head"
               /\ UNCHANGED result
          ELSE /\ input' = Append(input, [id |-> parsed.id, seq |-> parsed.seq, edges |-> parsed.edges])
               /\ pc' = "head"
               /\ UNCHANGED result
    /\ target_sequence_store' = StoreAfterParse(target_sequence_store, fasta[idx])
    /\ UNCHANGED <<idx, node_map, node_count, mirror_of, graph_edges, rewrites, fasta, dot_reader>>

(* let record = parse_bcalm2_fasta_record(record?, ..)?; at the top of the
   loop body: an error is the return value of the reader *)
ParseRecord ==
    /\ pc = "parse"
    /\ LET parsed == parse_bcalm2_fasta_record(fasta[idx])
       IN IF parsed.error # NoError
          THEN /\ pc' = "error"
               /\ result' = parsed.error
               /\ UNCHANGED input
          ELSE /\ input' = Append(input, [id |-> parsed.id, seq |-> parsed.seq, edges |-> parsed.edges])
               /\ pc' = "head"
               /\ UNCHANGED result
    /\ target_sequence_store' = StoreAfterParse(target_sequence_store, fasta[idx])
    /\ UNCHANGED <<idx, node_map, node_count, mirror_of, graph_edges, rewrites, fasta, dot_reader>>

-----------------------------------------------------------------------------
(* Fasta streams: records as bcalm2 (and the writer of this crate) prints
   them, one of them with further parameters in front of its adjacency
   tokens and possibly with an id that is no number *)

(* Records of a fasta stream *)
FastaRecords == 3

(* Parameters put in front of the adjacency tokens of one record *)
MaxParams == 2

(* "L:{}:{}:{}" of write_plain_bcalm2_node_data_to_bcalm2 *)
LinkText(e) ==
    << "L", ":" >> \o (IF e.from_side THEN <<"+">> ELSE <<"-">>) \o <<":">>
        \o Decimal(e.to_node) \o <<":">> \o (IF e.to_side THEN <<"+">> ELSE <<"-">>)

FastaRecord(rec, parameters) ==
    [id |-> Decimal(rec.id),
     desc |-> Join(parameters \o [i \in 1..Len(rec.edges) |-> LinkText(rec.edges[i])]),
     seq |-> rec.seq]

(* one sequence of length 4 and one of length 5 that overlap each other *)
FastaSequences == { << "A", "A", "T", "T" >>, << "T", "T", "C", "A", "A" >> }

ParameterPool ==
    { LengthKey \o <<"4">>,
      LengthKey \o <<"5">>,
      LengthKey \o << "+", "4" >>,
      LengthKey \o <<"x">>,
      TotalAbundanceKey \o <<"7">>,
      << "k", "m", ":", "f", ":", "1", ".", "5" >>,
      << "L", ":", "+", ":", "0" >>,
      << "L", ":", "*", ":", "0", ":", "+" >>,
      << "X", "X", ":", "Z", ":", "1" >>,
      << "L", ":", "+" >> }

RECURSIVE SeqsUpTo(_, _)
SeqsUpTo(S, k) ==
    IF k = 0 THEN {<<>>}
    ELSE LET P == SeqsUpTo(S, k - 1)
         IN P \cup { Append(p, x) : p \in P, x \in S }

FastaStreams ==
    { [r \in 1..FastaRecords |->
          IF r = at
          THEN [FastaRecord(WellFormedStream(seqs)[r], parameters) EXCEPT
                    !.id = IF numbered THEN @ ELSE <<"x">>]
          ELSE FastaRecord(WellFormedStream(seqs)[r], <<>>)] :
        seqs \in [1..FastaRecords -> FastaSequences],
        at \in 1..FastaRecords,
        parameters \in SeqsUpTo(ParameterPool, MaxParams),
        numbered \in BOOLEAN }

ParseInit ==
    /\ fasta \in FastaStreams
    /\ input = <<>>
    /\ idx = 1
    /\ pc = "parse"
    /\ node_map = <<>>
    /\ node_count = 0
    /\ mirror_of = <<>>
    /\ graph_edges = <<>>
    /\ rewrites = {}
    /\ result = "Pending"
    /\ target_sequence_store = StoredSequences(input)
    /\ NoDot

ParseNext ==
    \/ ParseRecord
    \/ HeadResolve
    \/ HeadAssign
    \/ TailResolve
    \/ TailAssign
    \/ AddEdges

ParseSpec == ParseInit /\ [][ParseNext]_vars

-----------------------------------------------------------------------------
(* What the format asks of a header, word by word *)

IsNumeral(s) ==
    LET digits == IF s # <<>> /\ Head(s) = "+" THEN Tail(s) ELSE s
    IN digits # <<>> /\ \A i \in 1..Len(digits) : IsDigit(digits[i])

Words(rec) == SplitWhitespace(rec.desc)

HasKey(word, key) == Len(word) >= 5 /\ SubSeq(word, 1, 5) = key

ValueOf(word) == SubSeq(word, 6, Len(word))

IsMeanAbundanceWord(word) == \E key \in MeanAbundanceKeys : HasKey(word, key)

IsLinkWord(word) ==
    /\ Len(word) >= 7
    /\ SubSeq(word, 1, 2) = << "L", ":" >>
    /\ <<word[3]>> \in Sides
    /\ word[4] = ":"
    /\ IsNumeral(SubSeq(word, 5, Len(word) - 2))
    /\ word[Len(word) - 1] = ":"
    /\ <<word[Len(word)]>> \in Sides

WellFormedWord(word) ==
    \/ HasKey(word, LengthKey) /\ IsNumeral(ValueOf(word))
    \/ HasKey(word, TotalAbundanceKey) /\ IsNumeral(ValueOf(word))
    \/ IsMeanAbundanceWord(word) /\ ParseFloat(ValueOf(word))
    \/ IsLinkWord(word)

RepeatsParameter(words) ==
    \E i \in 1..Len(words), j \in 1..Len(words) :
        /\ i < j
        /\ \/ HasKey(words[i], LengthKey) /\ HasKey(words[j], LengthKey)
           \/ HasKey(words[i], TotalAbundanceKey) /\ HasKey(words[j], TotalAbundanceKey)
           \/ IsMeanAbundanceWord(words[i]) /\ IsMeanAbundanceWord(words[j])

(* the id is a number, every parameter is known and well formed, none is
   given twice *)
WellFormedHeader(rec) ==
    /\ IsNumeral(rec.id)
    /\ \A i \in 1..Len(Words(rec)) : WellFormedWord(Words(rec)[i])
    /\ ~RepeatsParameter(Words(rec))

(* the lengths the header declares *)
DeclaredLengths(rec) ==
    { ParseUsize(ValueOf(Words(rec)[i])) :
        i \in { j \in 1..Len(Words(rec)) :
                  HasKey(Words(rec)[j], LengthKey) /\ IsNumeral(ValueOf(Words(rec)[j])) } }

LengthMismatch(rec) == \E n \in DeclaredLengths(rec) : n # Len(rec.seq)

FailsToParse(rec) == ~WellFormedHeader(rec) \/ LengthMismatch(rec)

ParseErrors ==
    { "BCalm2IdError", "BCalm2LengthError", "BCalm2UnknownParameterError",
      "BCalm2DuplicateParameterError", "BCalm2MalformedParameterError" }

EdgesOfParsedRecords ==
    \A i \in 1..Len(graph_edges) :
        \E r \in 1..Len(input) : r < idx /\ input[r].id = graph_edges[i].data.id

-----------------------------------------------------------------------------
(* C14: declared length check.  When the header of a record carries a length
   parameter LN:i:<n> and n differs from the length of the sequence, the
   record is rejected, with the length error when the header is well formed
   otherwise (an error of the header itself is met first, in the loop over
   the parameters), and the record is not turned into a node or an edge;
   when n equals the length of the sequence or no length is declared, the
   error is never the length error. *)
LengthCheckStep ==
    pc = "parse" =>
        /\ LengthMismatch(fasta[idx]) =>
              /\ pc' = "error"
              /\ WellFormedHeader(fasta[idx]) => result' = "BCalm2LengthError"
              /\ UNCHANGED <<input, node_map, node_count, mirror_of, graph_edges>>
        /\ ~LengthMismatch(fasta[idx]) => result' # "BCalm2LengthError"

MismatchedRecordsRejected ==
    \A r \in 1..Len(fasta) :
        LengthMismatch(fasta[r]) =>
            /\ Len(input) < r
            /\ Len(graph_edges) <= 2 * (r - 1)
            /\ result # "Ok"

C14_DeclaredLengthChecked ==
    /\ []MismatchedRecordsRejected
    /\ [][LengthCheckStep]_vars

(* the reader has returned the length error for a record that follows a
   record it has turned into two edges *)
C14_Witness ==
    /\ pc = "error"
    /\ result = "BCalm2LengthError"
    /\ idx >= 2
    /\ Len(graph_edges) = 2 * (idx - 1)
    /\ LengthMismatch(fasta[idx])
    /\ WellFormedHeader(fasta[idx])

-----------------------------------------------------------------------------
(* C15: fail-fast parsing.  When the k-th record of the stream fails to parse
   (bad id, unknown, duplicate or malformed parameter, malformed adjacency
   token, length mismatch), the reader returns an error at once: no later
   record is read or processed, no edge is emitted for the k-th record, and
   no graph is returned. *)
FailFastStep ==
    /\ pc # "error"
    /\ (pc = "parse" /\ FailsToParse(fasta[idx])) =>
          /\ pc' = "error"
          /\ result' \in ParseErrors
          /\ UNCHANGED <<input, idx, node_map, node_count, mirror_of, graph_edges>>

ErrorIsFinal ==
    /\ pc = "error" =>
          /\ result \in ParseErrors
          /\ FailsToParse(fasta[idx])
          /\ \A r \in 1..(idx - 1) : ~FailsToParse(fasta[r])
          /\ Len(input) = idx - 1
          /\ Len(graph_edges) = 2 * (idx - 1)
          /\ EdgesOfParsedRecords
    /\ (\E r \in 1..Len(fasta) : FailsToParse(fasta[r])) => result # "Ok"
    /\ result \in ParseErrors => pc = "error"

C15_FailFast ==
    /\ []ErrorIsFinal
    /\ [][FailFastStep]_vars

(* the reader has returned with a malformed parameter of the second record
   of three: the first record is in the graph, the third is never read *)
C15_Witness ==
    /\ pc = "error"
    /\ result = "BCalm2MalformedParameterError"
    /\ idx = 2
    /\ Len(fasta) = 3
    /\ Len(input) = 1
    /\ Len(graph_edges) = 2

-----------------------------------------------------------------------------
(* Streams with dangling references: what bcalm2 emits for a set of unitigs,
   with one record missing.  The tokens that name the missing record stay in
   the records of its neighbors *)

RemoveAt(stream, r) == SubSeq(stream, 1, r - 1) \o SubSeq(stream, r + 1, Len(stream))

StreamIds(stream) == { stream[r].id : r \in 1..Len(stream) }

(* the slots named by a token of the stream whose record is not supplied *)
DanglingSlots(stream) ==
    { ToSlot(stream[r].edges[i]) :
        <<r, i>> \in { p \in (1..Len(stream)) \X (1..(4 * NumRecords)) :
                          /\ p[2] <= Len(stream[p[1]].edges)
                          /\ stream[p[1]].edges[p[2]].to_node \notin StreamIds(stream) } }

DanglingStreams ==
    { t \in { RemoveAt(stream, r) : stream \in WellFormedStreams, r \in 1..NumRecords } :
        DanglingSlots(t) # {} }

DanglingInit ==
    /\ input \in DanglingStreams
    /\ idx = 1
    /\ pc = "head"
    /\ node_map = <<>>
    /\ node_count = 0
    /\ mirror_of = <<>>
    /\ graph_edges = <<>>
    /\ rewrites = {}
    /\ fasta = <<>>
    /\ result = "Pending"
    /\ target_sequence_store = StoredSequences(input)
    /\ NoDot

DanglingSpec == DanglingInit /\ [][Next]_vars

-----------------------------------------------------------------------------
(* C16: dangling reference.  An adjacency entry that references a record id
   for which no record is ever supplied raises no error and no panic, and the
   build returns Ok. *)

(* the tokens of the record at position r that name a missing record *)
DanglingTokens(r) ==
    { input[r].edges[i] :
        i \in { j \in 1..Len(input[r].edges) : input[r].edges[j].to_node \notin StreamIds(input) } }

(* the endpoint slot of the record at position r that a token leaves from *)
EndpointOf(r, e) == 2 * input[r].id + (IF e.from_side THEN 1 ELSE 0)

SlotExists(i) == i < Len(node_map)

ReturnsOk ==
    /\ pc # "panicked"
    /\ pc = "done" =>
          /\ result = "Ok"
          /\ Len(graph_edges) = 2 * Len(input)
          /\ \A i \in 1..Len(graph_edges) : graph_edges[i].data.id \in StreamIds(input)

-----------------------------------------------------------------------------
(* C17: canonical token order on write.  For every written record the
   adjacency tokens appear with all forward-side (+) tokens first and then
   all reverse-side (-) tokens, and within each group they are ordered by
   neighbor id (ids are compared as numbers; of two tokens of a group to the
   same neighbor the one that enters it reversed comes first). *)
WriterSucceeds(g) == \A i \in 1..Len(g.edges) : MirrorEdges(g, i) # {}

Written == write_edge_centric_bigraph_to_bcalm2(graph, input)

ForwardSideFirst(es) ==
    \A i \in 1..Len(es), j \in 1..Len(es) :
        (i < j /\ es[j].from_side) => es[i].from_side

OrderedByNeighborId(es) ==
    \A i \in 1..Len(es), j \in 1..Len(es) :
        (i < j /\ es[i].from_side = es[j].from_side) =>
            \/ es[i].to_node < es[j].to_node
            \/ es[i].to_node = es[j].to_node /\ ~es[i].to_side /\ es[j].to_side

C17_CanonicalTokenOrder ==
    (pc = "done" /\ WriterSucceeds(graph)) =>
        \A w \in 1..Len(Written) :
            /\ ForwardSideFirst(Written[w].edges)
            /\ OrderedByNeighborId(Written[w].edges)

(* the graph of a finished pass is written; some record has two + tokens to
   different neighbors followed by a - token to a neighbor with a smaller id
   than the last + token, and two tokens to one neighbor *)
C17_Witness ==
    /\ pc = "done"
    /\ WriterSucceeds(graph)
    /\ \E w \in 1..Len(Written) :
          LET es == Written[w].edges
          IN \E i \in 1..Len(es), j \in 1..Len(es), l \in 1..Len(es) :
                /\ i < j /\ j < l
                /\ es[i].from_side /\ es[j].from_side /\ ~es[l].from_side
                /\ es[i].to_node < es[j].to_node
                /\ es[l].to_node < es[j].to_node
                /\ \E h \in 1..Len(es) : h > l /\ es[h].to_node = es[l].to_node

-----------------------------------------------------------------------------
(* Streams that put the search loops to work: records without adjacency
   entries, whose endpoints all get identities of their own, followed by one
   record with any list of entries, in any order, to them, to itself and to
   a record that does not follow *)

(* Records of such a stream *)
SearchRecords == 3

(* Entries of its last record *)
MaxEntries == 3

SearchStreams ==
    { [r \in 1..SearchRecords |->
          [id |-> r - 1,
           seq |-> IF r = SearchRecords THEN seq ELSE << "A", "A", "A", "A" >>,
           edges |-> IF r = SearchRecords THEN es ELSE <<>>]] :
        seq \in FlagSequences,
        es \in SeqsUpTo({ Edge(fs, j, ts) : fs \in BOOLEAN, j \in 0..SearchRecords, ts \in BOOLEAN },
                        MaxEntries) }

SearchInit ==
    /\ input \in SearchStreams
    /\ idx = 1
    /\ pc = "head"
    /\ node_map = <<>>
    /\ node_count = 0
    /\ mirror_of = <<>>
    /\ graph_edges = <<>>
    /\ rewrites = {}
    /\ fasta = <<>>
    /\ result = "Pending"
    /\ target_sequence_store = StoredSequences(input)
    /\ NoDot

SearchSpec == SearchInit /\ [][Next]_vars

-----------------------------------------------------------------------------
(* C18: first-match neighbor search.  When the head (tail) endpoint of a
   record is Unmapped, the builder scans only the adjacency entries with
   from_side = false (true), in list order, and adopts the value of the first
   entry whose slot 2 * to_node + (to_side ? 0 : 1) is mapped: the head
   adopts it unchanged when to_side = false and mirrored when to_side = true,
   the tail unchanged when to_side = true and mirrored when to_side = false.
   Entries after the first match are not consulted. *)

(* the entries the search for an endpoint goes through *)
RelevantEdges(isHead) == IF isHead THEN IncomingEdges(record) ELSE OutgoingEdges(record)

IsMappedSlot(m, i) == i < Len(m) /\ m[i + 1] # Unmapped

(* position in es of the first entry whose slot is mapped in m, 0 if none *)
FirstMatch(m, es) ==
    IF \E i \in 1..Len(es) : IsMappedSlot(m, ToSlot(es[i]))
    THEN CHOOSE i \in 1..Len(es) :
            /\ IsMappedSlot(m, ToSlot(es[i]))
            /\ \A j \in 1..(i - 1) : ~IsMappedSlot(m, ToSlot(es[j]))
    ELSE 0

AdoptedValue(isHead, e, v) ==
    IF isHead
    THEN (IF e.to_side THEN MirrorMapped(v) ELSE v)
    ELSE (IF e.to_side THEN v ELSE MirrorMapped(v))

(* the length of the map once the entries es[1..k] have been consulted *)
RECURSIVE ConsultedLength(_, _, _)
ConsultedLength(len, es, k) ==
    IF k = 0 THEN len
    ELSE LET before == ConsultedLength(len, es, k - 1)
         IN IF ToSlot(es[k]) >= before THEN ToSlot(es[k]) + 1 ELSE before

(* the step that resolves an Unmapped endpoint of which some relevant entry
   names a mapped slot: the endpoint gets the value of the first such entry,
   the map grows only for the entries up to that one, nothing else changes *)
FirstMatchAdopted(isHead) ==
    LET m == IF isHead THEN Resize(node_map, n2) ELSE node_map
        n == IF isHead THEN n1 ELSE n2
        es == RelevantEdges(isHead)
        k == FirstMatch(m, es)
    IN (pc = (IF isHead THEN "head" ELSE "tail") /\ m[n + 1] = Unmapped /\ k > 0) =>
          /\ node_map'[n + 1] = AdoptedValue(isHead, es[k], m[ToSlot(es[k]) + 1])
          /\ Len(node_map') = ConsultedLength(Len(m), es, k)
          /\ \A i \in 1..Len(m) : i # n + 1 => node_map'[i] = m[i]
          /\ node_count' = node_count

(* C18 as claimed: for the head and for the tail of every record *)
C18_FirstMatchAdopted ==
    [][FirstMatchAdopted(TRUE) /\ FirstMatchAdopted(FALSE)]_vars

(* the tail of a record flagged self-mirror-edge is not searched for: it
   takes the mirror of the head, no entry is consulted *)
FlaggedTailMirrorsHead ==
    (pc = "tail" /\ node_map[n2 + 1] = Unmapped /\ edge_is_self_mirror(record.seq)) =>
        node_map' = [node_map EXCEPT ![n2 + 1] = MirrorMapped(node_map[n1 + 1])]

(* C18 as amended: for the head of every record, and for the tail of every
   record that is not flagged self-mirror-edge *)
C18_FirstMatchUnlessFlagged ==
    [][/\ FirstMatchAdopted(TRUE)
       /\ edge_is_self_mirror(record.seq) \/ FirstMatchAdopted(FALSE)
       /\ FlaggedTailMirrorsHead]_vars

(* the tail of a record has just adopted the value of its first mapped
   neighbor, which is not the first entry scanned, and a later entry names a
   slot that holds another identity *)
C18_Witness ==
    /\ pc = "tail_assign"
    /\ ~edge_is_self_mirror(record.seq)
    /\ LET es == OutgoingEdges(record)
       IN \E k \in 2..Len(es), l \in 1..Len(es) :
             /\ k < l
             /\ \A j \in 1..(k - 1) : Slot(ToSlot(es[j])) = Unmapped
             /\ \A j \in 1..Len(es) : ToSlot(es[j]) # n2
             /\ Slot(ToSlot(es[k])) # Unmapped
             /\ Slot(n2) = AdoptedValue(FALSE, es[k], Slot(ToSlot(es[k])))
             /\ SlotExists(ToSlot(es[l]))
             /\ Slot(ToSlot(es[l])) # Unmapped
             /\ Slot(n2) # AdoptedValue(FALSE, es[l], Slot(ToSlot(es[l])))

-----------------------------------------------------------------------------
(* C19: fresh allocation and node accounting.  Container nodes are created
   only when an Unmapped endpoint finds no mapped neighbor (and, for a tail,
   the record is not flagged self-mirror-edge); such a resolution creates
   exactly one node registered as its own mirror when the record lists the
   self-mirror token for that endpoint ((-,id,+) for the head, (+,id,-) for
   the tail) and exactly two mutually mirrored nodes otherwise; an endpoint
   that is already mapped when its record arrives, or that adopts a
   neighbor's value, creates none.  Hence the node count is always (number of
   SelfMirror allocations) + 2 * (number of Normal allocations), and a record
   with no relevant adjacency entries resolves by fresh allocation. *)

(* the step resolves an endpoint that is Unmapped and has no mapped neighbor *)
ResolvesFresh ==
    /\ pc \in {"head", "tail"}
    /\ LET isHead == pc = "head"
           m == IF isHead THEN Resize(node_map, n2) ELSE node_map
       IN /\ m[AllocatedSlot + 1] = Unmapped
          /\ FirstMatch(m, RelevantEdges(isHead)) = 0
          /\ isHead \/ ~edge_is_self_mirror(record.seq)

ListsSelfMirrorToken ==
    IF pc = "head" THEN SeqContains(record.edges, Edge(FALSE, record.id, TRUE))
    ELSE SeqContains(record.edges, Edge(TRUE, record.id, FALSE))

FreshAllocation ==
    IF ResolvesFresh
    THEN IF ListsSelfMirrorToken
         THEN /\ node_count' = node_count + 1
              /\ mirror_of' = mirror_of \o <<node_count>>
              /\ node_map'[AllocatedSlot + 1] = SelfMirror(node_count)
         ELSE /\ node_count' = node_count + 2
              /\ mirror_of' = mirror_of \o <<node_count + 1, node_count>>
              /\ node_map'[AllocatedSlot + 1] = Normal(node_count, node_count + 1)
    ELSE /\ node_count' = node_count
         /\ mirror_of' = mirror_of

(* the allocations so far, read off the registered mirrors: a node that is
   its own mirror is one SelfMirror allocation, a node whose mirror is the
   next node is the first node of one Normal allocation *)
SelfMirrorAllocations == { n \in Nodes : MirrorNode(n) = n }

NormalAllocations == { n \in Nodes : MirrorNode(n) = n + 1 }

NodeAccounting ==
    /\ Len(mirror_of) = node_count
    /\ node_count = Cardinality(SelfMirrorAllocations) + 2 * Cardinality(NormalAllocations)
    /\ \A n \in Nodes : MirrorNode(n) \in {n - 1, n, n + 1}

C19_FreshAllocation ==
    /\ []NodeAccounting
    /\ [][FreshAllocation]_vars

(* the tail of a record that lists (+,id,-) has just been given a fresh node
   that is its own mirror, in a graph that has mirrored pairs as well *)
C19_Witness ==
    /\ pc = "tail_assign"
    /\ SeqContains(record.edges, Edge(TRUE, record.id, FALSE))
    /\ ~edge_is_self_mirror(record.seq)
    /\ node_count >= 3
    /\ Slot(n2) = SelfMirror(node_count - 1)
    /\ mirror_of[node_count] = node_count - 1
    /\ NormalAllocations # {}

-----------------------------------------------------------------------------
(* convert_generic_node_centric_bigraph_to_edge_centric as a function of the
   stream: the endpoint map and the graph it ends with, ok = FALSE if it
   panics on the way *)

NoPropagation(m) == [map |-> m, ok |-> TRUE, rewrites |-> {}]

(* one iteration of the loop over the generic nodes *)
ConvertNode(st, generic_node) ==
    LET e1 == 2 * generic_node.id
        e2 == 2 * generic_node.id + 1
        m0 == Resize(st.node_map, e2)
        head_known == m0[e1 + 1] # Unmapped
        head_found == IF head_known THEN m0
                      ELSE SearchNeighbors(m0, IncomingEdges(generic_node), e1, TRUE)
        head_fresh == head_found[e1 + 1] = Unmapped
        head_new == NewEndpoint(st.graph.node_count, n1_is_self_mirror(generic_node))
        m1 == IF head_fresh THEN [head_found EXCEPT ![e1 + 1] = head_new.value] ELSE head_found
        g1 == IF head_fresh
              THEN [st.graph EXCEPT !.node_count = @ + Len(head_new.mirrors),
                                    !.mirror_of = @ \o head_new.mirrors]
              ELSE st.graph
        head_assigned == IF head_known THEN NoPropagation(m1)
                         ELSE AssignToNeighbors(m1, IncomingEdges(generic_node), e1, TRUE)
        m2 == head_assigned.map
        tail_known == m2[e2 + 1] # Unmapped
        flagged == edge_is_self_mirror(generic_node.seq)
        tail_found == IF tail_known THEN m2
                      ELSE IF flagged THEN [m2 EXCEPT ![e2 + 1] = MirrorMapped(m2[e1 + 1])]
                      ELSE SearchNeighbors(m2, OutgoingEdges(generic_node), e2, FALSE)
        tail_fresh == tail_found[e2 + 1] = Unmapped /\ ~flagged
        tail_new == NewEndpoint(g1.node_count, n2_is_self_mirror(generic_node))
        m3 == IF tail_fresh THEN [tail_found EXCEPT ![e2 + 1] = tail_new.value] ELSE tail_found
        g2 == IF tail_fresh
              THEN [g1 EXCEPT !.node_count = @ + Len(tail_new.mirrors),
                              !.mirror_of = @ \o tail_new.mirrors]
              ELSE g1
        tail_assigned == IF tail_known THEN NoPropagation(m3)
                         ELSE AssignToNeighbors(m3, OutgoingEdges(generic_node), e2, FALSE)
        m4 == tail_assigned.map
    IN IF ~st.ok THEN st
       ELSE IF ~head_assigned.ok THEN [node_map |-> m2, graph |-> g1, ok |-> FALSE]
       ELSE IF ~tail_assigned.ok THEN [node_map |-> m4, graph |-> g2, ok |-> FALSE]
       ELSE IF m4[e1 + 1] = Unmapped \/ m4[e2 + 1] = Unmapped
       THEN [node_map |-> m4, graph |-> g2, ok |-> FALSE]
       ELSE LET es == RecordEdges(m4[e1 + 1], m4[e2 + 1], generic_node.id)
            IN [node_map |-> m4,
                graph |-> [g2 EXCEPT !.edges = add_edge(add_edge(@, es[1]), es[2])],
                ok |-> TRUE]

RECURSIVE ConvertNodes(_, _)
ConvertNodes(st, reader) ==
    IF reader = <<>> THEN st
    ELSE ConvertNodes(ConvertNode(st, Head(reader)), Tail(reader))

convert_generic_node_centric_bigraph_to_edge_centric(reader) ==
    ConvertNodes([node_map |-> <<>>, graph |-> EmptyGraph, ok |-> TRUE], reader)

-----------------------------------------------------------------------------
(* C20: multi-edge idempotence.  Repeating an adjacency entry in the list of
   a record yields exactly the same final endpoint map and the same graph as
   listing it once; each repeated propagation writes the same value into the
   neighbor slot. *)

(* the list with every entry at its first place only *)
RECURSIVE ListedOnce(_)
ListedOnce(es) ==
    IF es = <<>> THEN <<>>
    ELSE LET front == ListedOnce(SubSeq(es, 1, Len(es) - 1))
             last == es[Len(es)]
         IN IF SeqContains(front, last) THEN front ELSE Append(front, last)

WithoutRepetitions(stream) ==
    [r \in 1..Len(stream) |-> [stream[r] EXCEPT !.edges = ListedOnce(@)]]

HasRepetition(stream) == WithoutRepetitions(stream) # stream

SameAsListedOnce ==
    LET once == convert_generic_node_centric_bigraph_to_edge_centric(WithoutRepetitions(input))
    IN /\ pc = "done" => (once.ok /\ once.node_map = node_map /\ once.graph = graph)
       /\ pc = "panicked" => ~once.ok

SelfMirrorTokenOnPair ==
    \E r \in 1..Len(input) :
        \/ /\ n1_is_self_mirror(input[r])
           /\ SlotExists(2 * input[r].id)
           /\ Slot(2 * input[r].id).kind = "Normal"
        \/ /\ n2_is_self_mirror(input[r])
           /\ SlotExists(2 * input[r].id + 1)
           /\ Slot(2 * input[r].id + 1).kind = "Normal"

-----------------------------------------------------------------------------
(* Streams with self-loop records: the overlap streams, and streams of
   symmetric adjacency in which one record lists its two self-loop tokens
   next to up to MaxLinks further links *)
LoopStreams(records, links) ==
    { StreamOf(SymmetricClosure(S \cup {TokenAt(r, Edge(TRUE, r, TRUE))}), seqs) :
        r \in 0..(records - 1),
        S \in SubsetsUpTo(AllTokens(records), links),
        seqs \in [1..records -> FlagSequences] }

LoopInit ==
    /\ input \in WellFormedStreams \cup LoopStreams(FreeRecords, MaxLinks)
    /\ idx = 1
    /\ pc = "head"
    /\ node_map = <<>>
    /\ node_count = 0
    /\ mirror_of = <<>>
    /\ graph_edges = <<>>
    /\ rewrites = {}
    /\ fasta = <<>>
    /\ result = "Pending"
    /\ target_sequence_store = StoredSequences(input)
    /\ NoDot

LoopSpec == LoopInit /\ [][Next]_vars

-----------------------------------------------------------------------------
(* C21: self-loop records.  A record that lists the self-loop tokens
   (+,id,+) and (-,id,-) resolves its tail to the same identity as its head
   (equal, not mirrored), so that its forward edge is a loop at head.forward
   and its mirror edge a loop at head.backward; the self-loop tokens alone
   never make an endpoint SelfMirror. *)
ListsSelfLoops(rec) ==
    /\ SeqContains(rec.edges, Edge(TRUE, rec.id, TRUE))
    /\ SeqContains(rec.edges, Edge(FALSE, rec.id, FALSE))

(* no entry of the record is a self-mirror token *)
SelfLoopsAlone(rec) == ~n1_is_self_mirror(rec) /\ ~n2_is_self_mirror(rec)

(* when the edges of such a record are about to be added its tail holds the
   identity of its head *)
TailEqualsHead ==
    (pc = "add_edges" /\ ListsSelfLoops(record)) =>
        /\ Slot(n1) # Unmapped
        /\ Slot(n2) = Slot(n1)

(* its edges, once added: a loop at head.forward and a loop at head.backward *)
LoopsAtHead ==
    \A r \in 1..(idx - 1) :
        ListsSelfLoops(input[r]) =>
            LET forward == graph_edges[2 * r - 1]
                backward == graph_edges[2 * r]
            IN /\ forward.from = forward.to
               /\ backward.from = backward.to
               /\ forward.data = [id |-> input[r].id, forwards |-> TRUE]
               /\ backward.data = [id |-> input[r].id, forwards |-> FALSE]
               /\ backward.from = MirrorNode(forward.from)

(* a step that resolves an endpoint of a record with self-loop tokens and
   without self-mirror tokens creates no node that is its own mirror *)
NoSelfMirrorBySelfLoops ==
    (pc \in {"head", "tail"} /\ ListsSelfLoops(record) /\ SelfLoopsAlone(record)) =>
        /\ node_count' \in {node_count, node_count + 2}
        /\ \A n \in node_count..(node_count' - 1) : mirror_of'[n + 1] # n

(* C21 as claimed: for any stream of symmetric adjacency *)
C21_SelfLoops ==
    /\ []((ConsecutiveIds(input) /\ IsSymmetric(input)) => (TailEqualsHead /\ LoopsAtHead))
    /\ [][NoSelfMirrorBySelfLoops]_vars

(* C21 as amended: for a stream whose adjacency is the (k-1)-overlaps of the
   sequences; in a stream that is only symmetric the two endpoints of the
   record may both have been given identities, and different ones, by the
   propagation of earlier records *)
C21_SelfLoopsIfOverlaps ==
    /\ [](IsOverlapStream(input) => (TailEqualsHead /\ LoopsAtHead))
    /\ [][NoSelfMirrorBySelfLoops]_vars

(* the edges of a record with the two self-loop tokens and with tokens to
   other records, as record 0 of test_edge_read_write_self_loops, have been
   added: two loops, at a node and at its mirror, which is another node *)
C21_Witness ==
    /\ pc \in {"head", "done"}
    /\ idx > 1
    /\ IsOverlapStream(input)
    /\ LET rec == input[idx - 1]
       IN /\ ListsSelfLoops(rec)
          /\ SelfLoopsAlone(rec)
          /\ \E i \in 1..Len(rec.edges) : rec.edges[i].to_node # rec.id
          /\ Slot(2 * rec.id).kind = "Normal"
          /\ Slot(2 * rec.id + 1) = Slot(2 * rec.id)
          /\ graph_edges[2 * idx - 3].from = graph_edges[2 * idx - 3].to
          /\ graph_edges[2 * idx - 2].from = MirrorNode(graph_edges[2 * idx - 3].from)
          /\ graph_edges[2 * idx - 2].from # graph_edges[2 * idx - 3].from

-----------------------------------------------------------------------------
(* C22: endpoints are mapped at emission.  For any input, including
   asymmetric adjacency and references to records that are not in the
   stream, at the point where the two edges of a record are added both its
   head slot and its tail slot exist and hold a mapped value (Normal or
   SelfMirror), and the step that adds the edges does not abort: the
   assertions hold and the branches for Unmapped are not taken. *)

IsMapped(v) == v.kind \in {"Normal", "SelfMirror"}

EndpointsMappedAtEmission ==
    pc = "add_edges" =>
        /\ SlotExists(n1) /\ IsMapped(Slot(n1))
        /\ SlotExists(n2) /\ IsMapped(Slot(n2))

EmissionDoesNotAbort == pc = "add_edges" => pc' # "panicked"

C22_EndpointsMappedAtEmission ==
    /\ []EndpointsMappedAtEmission
    /\ [][EmissionDoesNotAbort]_vars

(* the edges of a record are about to be added whose list is not symmetric
   and names a record that is not in the stream, one endpoint having come
   from a neighbor and the other being fresh *)
C22_Witness ==
    /\ pc = "add_edges"
    /\ ~IsSymmetric(input)
    /\ \E i \in 1..Len(record.edges) : record.edges[i].to_node \notin StreamIds(input)
    /\ \E i \in 1..Len(record.edges) :
          /\ record.edges[i].to_node \in StreamIds(input)
          /\ record.edges[i].to_node # record.id
    /\ IsMapped(Slot(n1))
    /\ IsMapped(Slot(n2))
    /\ \E r \in 1..(idx - 1) : Slot(n1) \in {Slot(2 * input[r].id), Slot(2 * input[r].id + 1)}
    /\ Slot(n2).forward >= 4 * (SearchRecords - 1)

-----------------------------------------------------------------------------
(* C23: one written record per mirror pair.  For a graph built by the reader
   from N records the writer emits exactly N records, one per pair of mirror
   edges: always the forward edge of the pair (the one added first, with
   forwards = true, printed with the sequence as read) and never its mirror,
   in the order in which the records were read. *)

(* the indices of the edges the writer prints, in the order of printing *)
PrintedEdges(g) ==
    LET output_edges == OutputEdges(g)
    IN { i \in 1..Len(g.edges) : output_edges[i] }

OneRecordPerMirrorPair ==
    pc = "done" =>
        /\ WriterSucceeds(graph)
        /\ Len(Written) = Len(input)
        /\ PrintedEdges(graph) = { 2 * r - 1 : r \in 1..Len(input) }
        /\ \A r \in 1..Len(input) :
              /\ graph_edges[2 * r - 1].data = [id |-> input[r].id, forwards |-> TRUE]
              /\ mirror_edge_edge_centric(graph, 2 * r - 1) = 2 * r
              /\ Written[r].id = input[r].id
              /\ Written[r].seq = input[r].seq

C23_OneRecordPerMirrorPair == OneRecordPerMirrorPair

(* three records are written for a graph of six edges, one of them for a
   record whose two edges run between the same nodes, one for a record whose
   sequence differs from its reverse complement *)
C23_Witness ==
    /\ pc = "done"
    /\ Len(input) = NumRecords
    /\ Len(graph_edges) = 2 * NumRecords
    /\ Len(Written) = NumRecords
    /\ \E r \in 1..Len(input) :
          /\ graph_edges[2 * r - 1].from = graph_edges[2 * r].from
          /\ graph_edges[2 * r - 1].to = graph_edges[2 * r].to
    /\ \E r \in 1..Len(input) :
          /\ input[r].seq # ReverseComplement(input[r].seq)
          /\ Written[r].seq = input[r].seq
          /\ input[r].edges # <<>>

-----------------------------------------------------------------------------
(* The self-mirror-edge flag as a function of the sequence and of kmer_size *)

(* Longest sequence, and largest kmer_size, the flag is computed for *)
MaxSeqLen == 4

MaxKmerSize == 5

Alphabet == { "A", "C", "G", "T" }

(* Variant that compares kmer_size characters *)
edge_is_self_mirror_for_TakesKmerSize(seq, kmer_size) ==
    \A i \in 1..Min(Len(seq), kmer_size) : seq[i] = ReverseComplement(seq)[i]

(* sequence.iter().zip(sequence.reverse_complement_iter()).take(kmer_size - 1).all(|(a, b)| *a == b):
   zip ends with the shorter of the two, take with the prefix asked for *)
edge_is_self_mirror_for(seq, kmer_size) ==
    \A i \in 1..Min(Len(seq), kmer_size - 1) : seq[i] = ReverseComplement(seq)[i]

FlagStreams ==
    { << [id |-> 0, seq |-> seq, edges |-> <<>>] >> : seq \in SeqsUpTo(Alphabet, MaxSeqLen) }

FlagInit ==
    /\ input \in FlagStreams
    /\ idx = 1
    /\ pc = "flag"
    /\ node_map = <<>>
    /\ node_count = 0
    /\ mirror_of = <<>>
    /\ graph_edges = <<>>
    /\ rewrites = {}
    /\ fasta = <<>>
    /\ result = "Pending"
    /\ target_sequence_store = StoredSequences(input)
    /\ NoDot

(* the reader, called with some kmer_size, computes the flag of the record *)
ComputeFlag ==
    /\ pc = "flag"
    /\ \E kmer_size \in 2..MaxKmerSize :
          result' = [kmer_size |-> kmer_size,
                     edge_is_self_mirror |-> edge_is_self_mirror_for(record.seq, kmer_size)]
    /\ pc' = "flagged"
    /\ UNCHANGED <<input, idx, node_map, node_count, mirror_of, graph_edges, rewrites, fasta, target_sequence_store, dot_reader>>

FlagNext == ComputeFlag

FlagSpec == FlagInit /\ [][FlagNext]_vars

-----------------------------------------------------------------------------
(* C24: self-mirror-edge flag.  The reader treats a record as self-mirror
   edge exactly when the reverse complement of the first k-1 characters of
   its sequence equals its last k-1 characters, for every sequence and every
   k >= 2; of a sequence shorter than k-1 the first and the last k-1
   characters are the whole sequence.  At the kmer_size of the streams of the
   model the flag is the one the reader's steps use. *)

FirstCharacters(seq, n) == SubSeq(seq, 1, Min(n, Len(seq)))

LastCharacters(seq, n) == SubSeq(seq, Len(seq) - Min(n, Len(seq)) + 1, Len(seq))

FlagIsBoundaryPalindrome ==
    pc = "flagged" =>
        LET seq == record.seq
            k == result.kmer_size
        IN /\ result.edge_is_self_mirror
                = (ReverseComplement(FirstCharacters(seq, k - 1)) = LastCharacters(seq, k - 1))
           /\ k = KmerSize => result.edge_is_self_mirror = edge_is_self_mirror(seq)

C24_SelfMirrorEdgeFlag == FlagIsBoundaryPalindrome

(* the flag is raised for a sequence shorter than k-1 that is its own reverse
   complement *)
C24_Witness ==
    /\ pc = "flagged"
    /\ result.edge_is_self_mirror
    /\ Len(record.seq) < result.kmer_size - 1
    /\ Len(record.seq) > 1
    /\ record.seq = ReverseComplement(record.seq)

-----------------------------------------------------------------------------
(* C25: in-bounds map access.  Every read and write of node_map uses an index
   below the current length of the map: the slots of the record exist from
   the first resize on, and the propagation loops, which do not grow the
   map, never address a slot past its end, also not after the search loop
   stopped at an earlier first match or on the path of the self-mirror
   edge, where no search ran. *)

EdgesOfStep ==
    IF pc = "head_assign" THEN IncomingEdges(record)
    ELSE IF pc = "tail_assign" THEN OutgoingEdges(record)
    ELSE <<>>

InBounds ==
    /\ pc # "panicked"
    /\ pc \in {"head_assign", "tail", "tail_assign", "add_edges"} =>
          /\ SlotExists(n1)
          /\ SlotExists(n2)
    /\ \A i \in 1..Len(EdgesOfStep) : SlotExists(ToSlot(EdgesOfStep[i]))

(* C25 as claimed: for ids consecutive from 0 and symmetric adjacency *)
C25_InBounds == (ConsecutiveIds(input) /\ IsSymmetric(input)) => InBounds

(* C25 as amended: for a stream whose adjacency is the (k-1)-overlaps of its
   sequences *)
C25_InBoundsIfOverlaps == IsOverlapStream(input) => InBounds

(* the tail of a self-mirror edge is about to be propagated, without a
   search before, to the slot of a record that comes later in the stream *)
C25_Witness ==
    /\ pc = "tail_assign"
    /\ IsOverlapStream(input)
    /\ edge_is_self_mirror(record.seq)
    /\ \E i \in 1..Len(EdgesOfStep) :
          /\ EdgesOfStep[i].to_node > record.id
          /\ SlotExists(ToSlot(EdgesOfStep[i]))
          /\ ToSlot(EdgesOfStep[i]) > n2

-----------------------------------------------------------------------------
(* Streams with the entries of every adjacency list in any order *)

(* Records of a reordered stream whose adjacency is the overlaps *)
OrderRecords == 2

(* Longest adjacency list that is reordered *)
MaxOrdered == 4

(* the lists that hold the entries of S once each *)
RECURSIVE Orderings(_)
Orderings(S) ==
    IF S = {} THEN { <<>> }
    ELSE UNION { { <<x>> \o o : o \in Orderings(S \ {x}) } : x \in S }

EntriesOf(rec) == { rec.edges[i] : i \in 1..Len(rec.edges) }

(* the streams that differ from stream in the order of the lists of no more
   than MaxOrdered entries, from record r on *)
RECURSIVE ReorderedFrom(_, _)
ReorderedFrom(stream, r) ==
    IF r > Len(stream) THEN {stream}
    ELSE IF Len(stream[r].edges) > MaxOrdered THEN ReorderedFrom(stream, r + 1)
    ELSE { [s EXCEPT ![r].edges = o] :
             s \in ReorderedFrom(stream, r + 1), o \in Orderings(EntriesOf(stream[r])) }

Reordered(stream) == ReorderedFrom(stream, 1)

(* Links of a stream of three records whose first and last record are
   linked to the one in the middle only *)
MaxFanLinks == 4

(* Streams of symmetric adjacency in which the endpoints of the record in the
   middle get their identities from the first record, and the last record
   finds them mapped *)
FanStreams ==
    { StreamOf(SymmetricClosure(S), seqs) :
        S \in SubsetsUpTo({ TokenAt(r, Edge(fs, 1, ts)) : r \in {0, 2}, fs \in BOOLEAN, ts \in BOOLEAN },
                          MaxFanLinks),
        seqs \in { [r \in 1..3 |-> << "A", "A", "A", "A" >>] } }

(* the stream with entries i and j of the list of the record at position r
   exchanged *)
SwapEntries(stream, r, i, j) ==
    [stream EXCEPT ![r].edges =
        [k \in 1..Len(@) |-> IF k = i THEN @[j] ELSE IF k = j THEN @[i] ELSE @[k]]]

(* the streams with two neighboring entries of one list exchanged *)
SwappedStreams(streams) ==
    UNION { { SwapEntries(s, r, i, i + 1) : i \in 1..(Len(s[r].edges) - 1) } :
            s \in streams, r \in 1..NumRecords }

(* overlap streams of NumRecords records with one exchange; overlap streams
   of n records, and the streams of symmetric adjacency, in every order *)
ReorderedStreams(n) ==
    SwappedStreams(WellFormedStreams) \cup
    UNION { Reordered(s) :
              s \in { WellFormedStream(seqs) : seqs \in [1..n -> UnitigSequences] }
                    \cup SymmetricStreams \cup FanStreams }

OrderInit ==
    /\ input \in ReorderedStreams(OrderRecords)
    /\ idx = 1
    /\ pc = "head"
    /\ node_map = <<>>
    /\ node_count = 0
    /\ mirror_of = <<>>
    /\ graph_edges = <<>>
    /\ rewrites = {}
    /\ fasta = <<>>
    /\ result = "Pending"
    /\ target_sequence_store = StoredSequences(input)
    /\ NoDot

OrderSpec == OrderInit /\ [][Next]_vars

-----------------------------------------------------------------------------
(* C26: independence from adjacency order.  Permuting the entries inside the
   adjacency lists of the records does not change the result up to renaming
   of node handles: the build of the stream as given and the build of the
   stream with every list in canonical order both return or both abort, and
   if they return the same endpoints share an identity (as it is, or
   mirrored), the same endpoints are SelfMirror, and the node and edge counts
   are the same. *)

(* the stream with the entries of every list in the order of the writer *)
InCanonicalOrder(stream) ==
    [r \in 1..Len(stream) |-> [stream[r] EXCEPT !.edges = SortTokens(EntriesOf(stream[r]))]]

(* the adjacency is the overlaps of the sequences, in whatever order *)
HasOverlapAdjacency(stream) == IsOverlapStream(InCanonicalOrder(stream))

SameUpToRenaming(canonical) ==
    /\ (pc = "done") = canonical.ok
    /\ pc = "done" =>
          /\ Len(node_map) = Len(canonical.node_map)
          /\ node_count = canonical.graph.node_count
          /\ Len(graph_edges) = Len(canonical.graph.edges)
          /\ \A i \in 1..Len(node_map) :
                /\ node_map[i].kind = canonical.node_map[i].kind
                /\ \A j \in 1..Len(node_map) :
                      /\ (node_map[i] = node_map[j]) = (canonical.node_map[i] = canonical.node_map[j])
                      /\ (node_map[i] = MirrorMapped(node_map[j]))
                            = (canonical.node_map[i] = MirrorMapped(canonical.node_map[j]))

OrderIndependent ==
    pc \in {"done", "panicked"} =>
        SameUpToRenaming(convert_generic_node_centric_bigraph_to_edge_centric(InCanonicalOrder(input)))

(* C26 as claimed: for consecutive ids and symmetric adjacency *)
C26_OrderIndependent == (ConsecutiveIds(input) /\ IsSymmetric(input)) => OrderIndependent

(* C26 as amended: for a stream whose adjacency is the (k-1)-overlaps of its
   sequences *)
C26_OrderIndependentIfOverlaps == HasOverlapAdjacency(input) => OrderIndependent

(* a build has returned for an overlap stream one of whose lists is not in
   canonical order and has entries to two records on one side, the first of
   them not the first in canonical order *)
C26_Witness ==
    /\ pc = "done"
    /\ HasOverlapAdjacency(input)
    /\ input # InCanonicalOrder(input)
    /\ \E r \in 1..Len(input) :
          LET es == input[r].edges
          IN /\ es # SortTokens(EntriesOf(input[r]))
             /\ \E i, j \in 1..Len(es) :
                   /\ i < j
                   /\ es[i].from_side = es[j].from_side
                   /\ es[i].to_node # es[j].to_node
                   /\ TokenLess(es[j], es[i])

-----------------------------------------------------------------------------
(* C27: no orphan nodes.  At every record boundary every node of the
   container is an endpoint of at least one edge; inside the processing of a
   record the nodes that are no endpoint of an edge yet are the ones of the
   identities in the two slots of the record: an identity allocated for the
   record is not overwritten by a later propagation of the same record and
   is the value of its endpoint when the edges are added. *)

IsEdgeEndpoint(n) ==
    \E i \in 1..Len(graph_edges) : graph_edges[i].from = n \/ graph_edges[i].to = n

NodesOf(v) == IF v.kind = "Unmapped" THEN {} ELSE { v.forward, v.backward }

HeldByRecord ==
    IF pc \in {"head_assign", "tail", "tail_assign", "add_edges"}
    THEN NodesOf(Slot(n1)) \cup NodesOf(Slot(n2))
    ELSE {}

NoOrphanNodes ==
    pc # "panicked" =>
        \A n \in 0..(node_count - 1) : IsEdgeEndpoint(n) \/ n \in HeldByRecord

(* C27 as claimed: for consecutive ids and symmetric adjacency *)
C27_NoOrphanNodes == (ConsecutiveIds(input) /\ IsSymmetric(input)) => NoOrphanNodes

(* the edges of a record are about to be added whose head and tail were both
   allocated for it and have both been propagated, the head to the record
   itself *)
C27_Witness ==
    /\ pc = "add_edges"
    /\ ConsecutiveIds(input)
    /\ IsSymmetric(input)
    /\ idx > 1
    /\ Slot(n1).kind = "Normal"
    /\ Slot(n2).kind = "Normal"
    /\ ~IsEdgeEndpoint(Slot(n1).forward)
    /\ ~IsEdgeEndpoint(Slot(n2).forward)
    /\ NodesOf(Slot(n1)) # NodesOf(Slot(n2))
    /\ OutgoingEdges(record) # <<>>
    /\ IncomingEdges(record) # <<>>

-----------------------------------------------------------------------------
(* C28: the sequence store after a rejected record.  When
   parse_bcalm2_fasta_record returns an error for a record, the caller's
   sequence store is exactly as it was before the call: the sequence of the
   rejected record has not been added to it. *)

Rejects == pc = "parse" /\ parse_bcalm2_fasta_record(fasta[idx]).error # NoError

C28_StoreUntouchedOnError ==
    [][Rejects => target_sequence_store' = target_sequence_store]_vars

(* What the parser does: the store is as it was only if the id of the record
   is no number; on every other error it holds the sequence of the rejected
   record as its last entry.  An accepted record adds its sequence, too, and
   no other step of the reader changes the store. *)
StoreAfterRecord ==
    IF pc # "parse" THEN target_sequence_store' = target_sequence_store
    ELSE IF parse_bcalm2_fasta_record(fasta[idx]).error = "BCalm2IdError"
    THEN target_sequence_store' = target_sequence_store
    ELSE target_sequence_store' = Append(target_sequence_store, fasta[idx].seq)

StoreKeepsRejectedSequence == [][StoreAfterRecord]_vars

(* the reader has returned an error about the parameters or the length of a
   record that was not the first, and the store holds one sequence more than
   records were accepted *)
RejectedSequenceStored ==
    /\ pc = "error"
    /\ result \notin {"BCalm2IdError", "Pending", "Ok"}
    /\ idx > 1
    /\ Len(target_sequence_store) = Len(input) + 1
    /\ target_sequence_store[idx] = fasta[idx].seq

-----------------------------------------------------------------------------
(* The reader of wtdbg2 dot files: read_graph_from_wtdbg2_dot.  Text is a
   sequence of characters, as in the fasta reader *)

(* Lines of a dot file *)
MaxDotLines == 5

KwDigraphToken == << "d", "i", "g", "r", "a", "p", "h" >>

OpenBraceToken == << "{" >>

KwNodeToken == << "n", "o", "d", "e" >>

SHAPE_RECORD == << "[", "s", "h", "a", "p", "e", "=", "r", "e", "c", "o", "r", "d", "]" >>

CloseBraceToken == << "}" >>

ArrowToken == << "-", ">" >>

DIRECTION_LABEL_PREFIX == << "[", "l", "a", "b", "e", "l", "=", "\"" >>

(* the lines a file is made of: the lines of a well-formed file, and lines
   that are too short for a keyword, carry another keyword, go on after the
   last token, or name a node that was not declared *)
DotLines ==
    {
      (* digraph { node [shape=record] *)
      << "d", "i", "g", "r", "a", "p", "h", " ", "{", " ", "n", "o", "d", "e", " ", "[", "s", "h", "a", "p", "e", "=", "r", "e", "c", "o", "r", "d", "]" >>,
      (* digraph { *)
      << "d", "i", "g", "r", "a", "p", "h", " ", "{" >>,
      (* dig *)
      << "d", "i", "g" >>,
      (* node [shape=record] *)
      << "n", "o", "d", "e", " ", "[", "s", "h", "a", "p", "e", "=", "r", "e", "c", "o", "r", "d", "]" >>,
      (* node [shape=record] a *)
      << "n", "o", "d", "e", " ", "[", "s", "h", "a", "p", "e", "=", "r", "e", "c", "o", "r", "d", "]", " ", "a" >>,
      (* graph G { *)
      << "g", "r", "a", "p", "h", " ", "G", " ", "{" >>,
      (* a *)
      << "a" >>,
      (* a -> a [label="+-"] *)
      << "a", " ", "-", ">", " ", "a", " ", "[", "l", "a", "b", "e", "l", "=", "\"", "+", "-", "\"", "]" >>,
      (* a -> b [label="++"] *)
      << "a", " ", "-", ">", " ", "b", " ", "[", "l", "a", "b", "e", "l", "=", "\"", "+", "+", "\"", "]" >>,
      (* a -> a *)
      << "a", " ", "-", ">", " ", "a" >>,
      (* } *)
      << "}" >>,
      (* } a *)
      << "}", " ", "a" >>,
      (* an empty line *)
      <<>>
    }

(* the files of up to n lines *)
DotStreams(n) == SeqsUpTo(DotLines, n)

(* str::trim *)
RECURSIVE TrimStart(_)
TrimStart(s) == IF s # <<>> /\ Head(s) = " " THEN TrimStart(Tail(s)) ELSE s

RECURSIVE TrimEnd(_)
TrimEnd(s) == IF s # <<>> /\ s[Len(s)] = " " THEN TrimEnd(SubSeq(s, 1, Len(s) - 1)) ELSE s

Trim(s) == TrimEnd(TrimStart(s))

(* &s[n..]: the characters after the first n; the caller makes sure there are n *)
SliceFrom(s, n) == SubSeq(s, n + 1, Len(s))

(* what a call of the reader's helpers comes to: Ok(()), an error value, or
   a panic *)
DotOk == "Ok"

DotPanic == "panic"

(* DotIoError::expect_token *)
expect_token(actual, expected) ==
    IF actual = expected THEN DotOk ELSE "UnexpectedToken"

(* DotIoError::expect_line_start: &line[..expected.len()] panics if the line
   is shorter than the token *)
expect_line_start(l, expected) ==
    IF Len(l) < Len(expected) THEN DotPanic
    ELSE expect_token(SubSeq(l, 1, Len(expected)), expected)

(* DotIoError::expect_empty_line *)
expect_empty_line(l) == IF l = <<>> THEN DotOk ELSE "MissingEmptyLine"

(* return Err(error) *)
DotReturn(value) ==
    /\ pc' = "done"
    /\ result' = value

(* panic *)
DotAbort ==
    /\ pc' = "panicked"
    /\ UNCHANGED result

(* the variables of the bcalm2 reader, which the dot reader does not have *)
bcalm2_reader == <<input, idx, node_map, rewrites, fasta, target_sequence_store>>

(* for line in dot.lines(): the next line, trimmed; Ok(graph) after the last *)
NextLine ==
    /\ pc = "dot"
    /\ line = <<>>
    /\ IF dot = <<>>
       THEN /\ DotReturn("Ok")
            /\ UNCHANGED <<dot, line>>
       ELSE /\ line' = Trim(Head(dot))
            /\ dot' = Tail(dot)
            /\ UNCHANGED <<pc, result>>
    /\ UNCHANGED <<state, node_id_map, node_count, mirror_of, graph_edges, bcalm2_reader>>

(* an arm of the match that expects a token at the start of the line, takes
   it off and goes to the next state *)
ReadToken(token, to) ==
    /\ pc = "dot"
    /\ line # <<>>
    /\ LET r == expect_line_start(line, token)
       IN IF r = DotPanic THEN DotAbort /\ UNCHANGED <<line, state>>
          ELSE IF r # DotOk THEN DotReturn(r) /\ UNCHANGED <<line, state>>
          ELSE /\ line' = Trim(SliceFrom(line, Len(token)))
               /\ state' = to
               /\ UNCHANGED <<pc, result>>
    /\ UNCHANGED <<dot, node_id_map, node_count, mirror_of, graph_edges, bcalm2_reader>>

ReadKwDigraph ==
    /\ state = "KwDigraph"
    /\ ReadToken(KwDigraphToken, "OpenBrace")

ReadOpenBrace ==
    /\ state = "OpenBrace"
    /\ ReadToken(OpenBraceToken, "KwNode")

ReadKwNode ==
    /\ state = "KwNode"
    /\ ReadToken(KwNodeToken, "KwShapeRecord")

ReadKwShapeRecord ==
    /\ pc = "dot"
    /\ line # <<>>
    /\ state = "KwShapeRecord"
    /\ LET r == expect_line_start(line, SHAPE_RECORD)
           rest == Trim(SliceFrom(line, Len(SHAPE_RECORD)))
       IN IF r = DotPanic THEN DotAbort /\ UNCHANGED <<line, state>>
          ELSE IF r # DotOk THEN DotReturn(r) /\ UNCHANGED <<line, state>>
          ELSE IF expect_empty_line(rest) # DotOk
          THEN DotReturn(expect_empty_line(rest)) /\ UNCHANGED <<line, state>>
          ELSE /\ line' = rest
               /\ state' = "Nodes"
               /\ UNCHANGED <<pc, result>>
    /\ UNCHANGED <<dot, node_id_map, node_count, mirror_of, graph_edges, bcalm2_reader>>

(* HashMap::insert *)
Insert(map, key, value) ==
    [k \in DOMAIN map \cup {key} |-> IF k = key THEN value ELSE map[k]]

(* a line of the node list declares a node, unless its second word is an
   arrow: then the edge list has begun, and the line is read again *)
ReadNodes ==
    /\ pc = "dot"
    /\ line # <<>>
    /\ state = "Nodes"
    /\ LET tokens == Split(line, " ")
           node_name == tokens[1]
           forward_node_name == node_name \o << " ", "+" >>
           backward_node_name == node_name \o << " ", "-" >>
       IN IF Len(tokens) >= 2 /\ tokens[2] = ArrowToken
          THEN /\ state' = "Edges"
               /\ UNCHANGED <<pc, result, line, node_id_map, node_count, mirror_of>>
          ELSE /\ node_count' = node_count + 2
               /\ mirror_of' = mirror_of \o << node_count + 1, node_count >>
               /\ UNCHANGED state
               /\ IF forward_node_name \in DOMAIN node_id_map
                  THEN /\ node_id_map' = Insert(node_id_map, forward_node_name, node_count)
                       /\ DotReturn("DuplicateNodeId")
                       /\ UNCHANGED line
                  ELSE IF backward_node_name \in DOMAIN node_id_map
                  THEN /\ node_id_map' = Insert(Insert(node_id_map, forward_node_name, node_count),
                                                backward_node_name, node_count + 1)
                       /\ DotReturn("DuplicateNodeId")
                       /\ UNCHANGED line
                  ELSE /\ node_id_map' = Insert(Insert(node_id_map, forward_node_name, node_count),
                                                backward_node_name, node_count + 1)
                       /\ line' = <<>>
                       /\ UNCHANGED <<pc, result>>
    /\ UNCHANGED <<dot, graph_edges, bcalm2_reader>>

(* a line of the edge list: from -> to [label="<side><side>"...], or the
   closing brace, which is left to the next state *)
ReadEdges ==
    /\ pc = "dot"
    /\ line # <<>>
    /\ state = "Edges"
    /\ LET tokens == Split(line, " ")
           direction_label == SliceFrom(tokens[4], Len(DIRECTION_LABEL_PREFIX))
           from_node_name == tokens[1] \o << " ", direction_label[1] >>
           to_node_name == tokens[3] \o << " ", direction_label[2] >>
       IN IF tokens[1] = CloseBraceToken
          THEN /\ state' = "CloseBrace"
               /\ UNCHANGED <<pc, result, line, graph_edges>>
          ELSE IF Len(tokens) < 2
          THEN DotAbort /\ UNCHANGED <<line, state, graph_edges>>
          ELSE IF expect_token(tokens[2], ArrowToken) # DotOk
          THEN DotReturn(expect_token(tokens[2], ArrowToken)) /\ UNCHANGED <<line, state, graph_edges>>
          ELSE IF Len(tokens) < 4
          THEN DotAbort /\ UNCHANGED <<line, state, graph_edges>>
          ELSE IF expect_line_start(tokens[4], DIRECTION_LABEL_PREFIX) = DotPanic
          THEN DotAbort /\ UNCHANGED <<line, state, graph_edges>>
          ELSE IF expect_line_start(tokens[4], DIRECTION_LABEL_PREFIX) # DotOk
          THEN /\ DotReturn(expect_line_start(tokens[4], DIRECTION_LABEL_PREFIX))
               /\ UNCHANGED <<line, state, graph_edges>>
          ELSE IF Len(direction_label) < 2
          THEN DotAbort /\ UNCHANGED <<line, state, graph_edges>>
          ELSE IF from_node_name \notin DOMAIN node_id_map \/ to_node_name \notin DOMAIN node_id_map
          THEN DotAbort /\ UNCHANGED <<line, state, graph_edges>>
          ELSE /\ graph_edges' = Append(graph_edges,
                                       [from |-> node_id_map[from_node_name],
                                        to |-> node_id_map[to_node_name],
                                        data |-> "Default"])
               /\ line' = <<>>
               /\ UNCHANGED <<pc, result, state>>
    /\ UNCHANGED <<dot, node_id_map, node_count, mirror_of, bcalm2_reader>>

ReadCloseBrace ==
    /\ state = "CloseBrace"
    /\ ReadToken(CloseBraceToken, "Ok")

(* anything after the closing brace *)
ReadOk ==
    /\ pc = "dot"
    /\ line # <<>>
    /\ state = "Ok"
    /\ DotReturn("UnexpectedToken")
    /\ UNCHANGED <<dot, line, state, node_id_map, node_count, mirror_of, graph_edges, bcalm2_reader>>

DotInit ==
    /\ dot \in DotStreams(MaxDotLines)
    /\ line = <<>>
    /\ state = "KwDigraph"
    /\ node_id_map = <<>>
    /\ pc = "dot"
    /\ result = "Pending"
    /\ node_count = 0
    /\ mirror_of = <<>>
    /\ graph_edges = <<>>
    /\ input = <<>>
    /\ idx = 1
    /\ node_map = <<>>
    /\ rewrites = {}
    /\ fasta = <<>>
    /\ target_sequence_store = <<>>

DotNext ==
    \/ NextLine
    \/ ReadKwDigraph
    \/ ReadOpenBrace
    \/ ReadKwNode
    \/ ReadKwShapeRecord
    \/ ReadNodes
    \/ ReadEdges
    \/ ReadCloseBrace
    \/ ReadOk

DotSpec == DotInit /\ [][DotNext]_vars

-----------------------------------------------------------------------------
(* C29: complete dot structure required.  read_graph_from_wtdbg2_dot returns
   Ok(graph) only if the parser has gone through KwDigraph, OpenBrace,
   KwNode, KwShapeRecord, Nodes, Edges and CloseBrace and is in the final
   state Ok, the closing brace consumed; input that ends earlier (empty
   input, header only, no closing brace) yields an error, and non-empty
   content after the closing brace yields UnexpectedToken. *)

ReturnedOk == pc = "done" /\ result = "Ok"

OkOnlyInFinalState == ReturnedOk => state = "Ok"

ContentAfterCloseBraceIsError ==
    (pc = "dot" /\ state = "Ok" /\ line # <<>>) => (pc' = "done" /\ result' = "UnexpectedToken")

C29_CompleteStructureRequired ==
    /\ []OkOnlyInFinalState
    /\ [][ContentAfterCloseBraceIsError]_vars

(* What the reader does: Ok(graph) is what it returns at the end of the
   input in whatever state, without an error on the way *)
OkAtEndOfInput == [][(pc = "dot" /\ line = <<>> /\ dot = <<>>) => ReturnedOk']_vars

(* the reader has returned Ok for a file that ends after the header *)
OkForHeaderOnly == ReturnedOk /\ state = "Nodes" /\ node_count = 0

-----------------------------------------------------------------------------
(* C30: malformed dot input is an error value.  For every non-empty line and
   every expected token, expect_line_start returns Ok if the line starts with
   the token and Err(UnexpectedToken) otherwise, also if the line is shorter
   than the token; the dot reader does not abort on a line that is too short
   for the keyword expected in the current state. *)

StartsWith(l, token) == Len(l) >= Len(token) /\ SubSeq(l, 1, Len(token)) = token

ExpectedTokens == { KwDigraphToken, OpenBraceToken, KwNodeToken, SHAPE_RECORD, CloseBraceToken }

ExpectedIn(s) ==
    CASE s = "KwDigraph" -> KwDigraphToken
      [] s = "OpenBrace" -> OpenBraceToken
      [] s = "KwNode" -> KwNodeToken
      [] s = "KwShapeRecord" -> SHAPE_RECORD
      [] s = "CloseBrace" -> CloseBraceToken

ExpectsToken == pc = "dot" /\ line # <<>> /\ state \in {"KwDigraph", "OpenBrace", "KwNode", "KwShapeRecord", "CloseBrace"}

LineStartIsOkOrError ==
    (pc = "dot" /\ line # <<>>) =>
        \A token \in ExpectedTokens :
            expect_line_start(line, token) = IF StartsWith(line, token) THEN DotOk ELSE "UnexpectedToken"

ShortLineDoesNotAbort ==
    (ExpectsToken /\ Len(line) < Len(ExpectedIn(state))) => pc' # "panicked"

C30_MalformedIsErrorValue ==
    /\ []LineStartIsOkOrError
    /\ [][ShortLineDoesNotAbort]_vars

(* What the helper does for the lines that are long enough *)
LineStartOfLongLines ==
    (pc = "dot" /\ line # <<>>) =>
        \A token \in ExpectedTokens :
            Len(line) >= Len(token) =>
                expect_line_start(line, token) = IF StartsWith(line, token) THEN DotOk ELSE "UnexpectedToken"

====
